---- MODULE Spec2Model ----
(***************************************************************************)
(* A model of the anti-malware service core: the real-time file monitor    *)
(* (src/src/file_monitor.cpp), the on-demand scanner (src/src/scanner.cpp) *)
(* and the parts of the threat engine they call                            *)
(* (src/src/threat_engine.cpp).                                            *)
(*                                                                         *)
(* Each path is spelled out as a sequence of one-character strings, so    *)
(* that lower-casing, substring search and extension extraction are        *)
(* computed the way the code computes them.                                *)
(***************************************************************************)
EXTENDS Integers, Sequences, FiniteSets, TLC

\* ------------------------------------------------------------------------
\* Bounds of the model
\* ------------------------------------------------------------------------

\* Number of scan requests the watch thread may enqueue in one behaviour.
MaxEvents == 3

\* Number of seconds the wall clock may advance (quarantine time stamps).
MaxTime == 1

\* Number of regular files in the scanned folder.
MaxDirFiles == 2
MaxSignatures == 2
MaxDataLen == 3
MaxVersion == 2

\* ------------------------------------------------------------------------
\* Strings as sequences of characters
\* ------------------------------------------------------------------------

UpperChars == <<"A", "B", "C", "D", "E", "F", "G", "H", "I", "J", "K", "L", "M",
                "N", "O", "P", "Q", "R", "S", "T", "U", "V", "W", "X", "Y", "Z">>
LowerChars == <<"a", "b", "c", "d", "e", "f", "g", "h", "i", "j", "k", "l", "m",
                "n", "o", "p", "q", "r", "s", "t", "u", "v", "w", "x", "y", "z">>

\* ::towlower on one character.
towlower(c) ==
    IF \E i \in 1..26 : UpperChars[i] = c
    THEN LowerChars[CHOOSE i \in 1..26 : UpperChars[i] = c]
    ELSE c

\* std::transform(s.begin(), s.end(), s.begin(), ::towlower)
ToLower(s) == [i \in 1..Len(s) |-> towlower(s[i])]

\* s.find(pat) != npos
Contains(s, pat) ==
    \E i \in 1..(Len(s) - Len(pat) + 1) : SubSeq(s, i, i + Len(pat) - 1) = pat

\* Position of the last occurrence of a character of cs in s, 0 when none.
LastIndexOf(s, cs) ==
    LET hits == {i \in 1..Len(s) : s[i] \in cs}
    IN  IF hits = {} THEN 0 ELSE CHOOSE i \in hits : \A j \in hits : j <= i

\* std::filesystem::path(p).filename(): what follows the last separator.
Filename(p) == SubSeq(p, LastIndexOf(p, {"\\", "/"}) + 1, Len(p))

\* std::filesystem::path(p).extension(): from the last dot of the file name,
\* empty when there is none, when the name starts with its only dot, or for
\* the names "." and "..".
Extension(p) ==
    LET f == Filename(p)
        d == LastIndexOf(f, {"."})
    IN  IF d <= 1 \/ f = <<".", ".">> THEN <<>> ELSE SubSeq(f, d, Len(f))

\* ------------------------------------------------------------------------
\* The files of the model
\* ------------------------------------------------------------------------

PathExe == "C:\\W\\a.exe"
PathJs == "C:\\W\\b.JS"
PathDat == "C:\\W\\c.dat"
PathTemp == "C:\\Temp\\e.exe"
PathLog == "C:\\W\\f.LOG"

\* A second file named a.exe, in a directory that is not watched.
PathCopy == "C:\\V\\a.exe"

\* The paths for which the platform reports changes.
Paths == {PathExe, PathJs, PathDat, PathTemp, PathLog}

\* The characters of each path (std::wstring).
Chars(p) ==
    CASE p = PathExe  -> <<"C", ":", "\\", "W", "\\", "a", ".", "e", "x", "e">>
      [] p = PathJs   -> <<"C", ":", "\\", "W", "\\", "b", ".", "J", "S">>
      [] p = PathDat  -> <<"C", ":", "\\", "W", "\\", "c", ".", "d", "a", "t">>
      [] p = PathTemp -> <<"C", ":", "\\", "T", "e", "m", "p", "\\", "e", ".", "e", "x", "e">>
      [] p = PathLog  -> <<"C", ":", "\\", "W", "\\", "f", ".", "L", "O", "G">>
      [] p = PathCopy -> <<"C", ":", "\\", "V", "\\", "a", ".", "e", "x", "e">>

\* What ThreatEngine::ScanFile finds in the bytes stored at each path; level
\* 0 is "no threat".  a.exe holds the default ".locked" signature (severity
\* 10), b.JS is high-entropy data (heuristic, severity 7), c.dat matches a
\* loaded signature of severity 8; the two files under the skip rules hold
\* the severity-10 signature as well.
ScanFile(p) ==
    CASE p = PathExe  -> [threat_name |-> "Ransomware.Generic.Extension", threat_level |-> 10]
      [] p = PathJs   -> [threat_name |-> "Heuristic.Suspicious.HighEntropy", threat_level |-> 7]
      [] p = PathDat  -> [threat_name |-> "Loaded.Signature", threat_level |-> 8]
      [] p = PathTemp -> [threat_name |-> "Ransomware.Generic.Extension", threat_level |-> 10]
      [] p = PathLog  -> [threat_name |-> "Ransomware.Generic.Extension", threat_level |-> 10]
      [] p = PathCopy -> [threat_name |-> "Ransomware.Generic.Extension", threat_level |-> 10]

\* ------------------------------------------------------------------------
\* FileMonitor: event filter and priority
\* ------------------------------------------------------------------------

SkipDirPatterns ==
    { <<"\\", "t", "e", "m", "p", "\\">>,
      <<"\\", "t", "m", "p", "\\">>,
      <<"\\", "a", "p", "p", "d", "a", "t", "a", "\\", "l", "o", "c", "a", "l", "\\",
        "t", "e", "m", "p", "\\">>,
      <<"\\", "w", "i", "n", "d", "o", "w", "s", "\\", "w", "i", "n", "s", "x", "s", "\\">>,
      <<"\\", "w", "i", "n", "d", "o", "w", "s", "\\", "s", "e", "r", "v", "i", "c", "i",
        "n", "g", "\\">>,
      <<"\\", "s", "y", "s", "t", "e", "m", " ", "v", "o", "l", "u", "m", "e", " ", "i",
        "n", "f", "o", "r", "m", "a", "t", "i", "o", "n", "\\">> }

skipExtensions ==
    { <<".", "l", "o", "g">>, <<".", "t", "m", "p">>, <<".", "t", "e", "m", "p">>,
      <<".", "s", "w", "p">>, <<".", "b", "a", "k">>, <<".", "t", "x", "t">>,
      <<".", "i", "n", "i">>, <<".", "x", "m", "l">>, <<".", "j", "s", "o", "n">> }

\* A mutant of ShouldSkipFile: the path and the extension are compared as
\* written, without lower-casing them first.
ShouldSkipFileCaseSensitive(filePath) ==
    \/ \E pat \in SkipDirPatterns : Contains(Chars(filePath), pat)
    \/ Extension(Chars(filePath)) \in skipExtensions

\* FileMonitor::ShouldSkipFile
ShouldSkipFile(filePath) ==
    \/ \E pat \in SkipDirPatterns : Contains(ToLower(Chars(filePath)), pat)
    \/ ToLower(Extension(Chars(filePath))) \in skipExtensions

\* FileMonitor::DetermineScanPriority
DetermineScanPriority(filePath) ==
    LET ext == ToLower(Extension(Chars(filePath)))
    IN  IF ext \in { <<".", "e", "x", "e">>, <<".", "d", "l", "l">>, <<".", "s", "c", "r">>,
                     <<".", "c", "o", "m">>, <<".", "p", "i", "f">> }
        THEN 10
        ELSE IF ext \in { <<".", "b", "a", "t">>, <<".", "c", "m", "d">>,
                          <<".", "p", "s", "1">>, <<".", "v", "b", "s">>, <<".", "j", "s">> }
        THEN 7
        ELSE IF ext \in { <<".", "d", "o", "c">>, <<".", "d", "o", "c", "x">>,
                          <<".", "x", "l", "s">>, <<".", "x", "l", "s", "x">>,
                          <<".", "p", "p", "t">>, <<".", "p", "p", "t", "x">> }
        THEN 5
        ELSE IF ext \in { <<".", "z", "i", "p">>, <<".", "r", "a", "r">>,
                          <<".", "7", "z">>, <<".", "t", "a", "r">> }
        THEN 3
        ELSE 1

\* ------------------------------------------------------------------------
\* The scan queue: std::priority_queue<ScanRequest>, a binary max-heap kept
\* in a vector by push_heap / pop_heap under ScanRequest::operator<.
\* Index i of the vector is element i + 1 of the sequence.
\* ------------------------------------------------------------------------

\* A mutant of the comparison: the order is reversed (lowest priority first).
ScanRequestLessReversed(a, b) == a.priority > b.priority

\* ScanRequest::operator<
ScanRequestLess(a, b) == a.priority < b.priority

\* push_heap's sift-up: move the hole towards the root while its parent is
\* less than the value, then store the value.
RECURSIVE PushHeapByIndex(_, _, _)
PushHeapByIndex(h, hole, val) ==
    IF hole > 1 /\ ScanRequestLess(h[hole \div 2], val)
    THEN PushHeapByIndex([h EXCEPT ![hole] = h[hole \div 2]], hole \div 2, val)
    ELSE [h EXCEPT ![hole] = val]

\* m_scanQueue.push(request)
QueuePush(h, request) == PushHeapByIndex(Append(h, request), Len(h) + 1, request)

\* pop_heap's walk of the hole from the root to the bottom, always to the
\* larger child (the right one unless it is less than the left one); idx and
\* hole are 0-based as in the library, bottom is the number of elements left.
RECURSIVE PercolateHole(_, _, _)
PercolateHole(h, idx, bottom) ==
    LET maxNonLeaf == (bottom - 1) \div 2
    IN  IF idx < maxNonLeaf
        THEN LET right == 2 * idx + 2
                 child == IF ScanRequestLess(h[right + 1], h[right]) THEN right - 1 ELSE right
             IN  PercolateHole([h EXCEPT ![idx + 1] = h[child + 1]], child, bottom)
        ELSE IF idx = maxNonLeaf /\ bottom % 2 = 0
        THEN [heap |-> [h EXCEPT ![idx + 1] = h[bottom]], hole |-> bottom - 1]
        ELSE [heap |-> h, hole |-> idx]

\* m_scanQueue.top()
QueueTop(h) == h[1]

\* m_scanQueue.pop()
QueuePop(h) ==
    IF Len(h) <= 1
    THEN <<>>
    ELSE LET val == h[Len(h)]
             rest == SubSeq(h, 1, Len(h) - 1)
             down == PercolateHole(rest, 0, Len(rest))
         IN  PushHeapByIndex(down.heap, down.hole + 1, val)


\* ------------------------------------------------------------------------
\* State
\* ------------------------------------------------------------------------

VARIABLES
    \* FileMonitor
    m_running,                    \* std::atomic<bool> m_running
    m_realTimeProtectionEnabled,  \* std::atomic<bool>
    m_scanQueue,                  \* the heap of ScanRequest records
    m_queueMutex,                 \* holder of m_queueMutex, NoThread when free
    steadyClock,                  \* steady_clock::now() of the next enqueue
    wpc,                          \* position of each worker thread
    request,                      \* the ScanRequest a worker holds
    cpc,                          \* position of the thread that starts and stops the monitor
    \* file system and ThreatEngine
    files,                        \* paths at which a file exists
    now,                          \* system_clock::now() in seconds
    vault,                        \* files in the quarantine directory
    m_quarantineEntries,          \* the engine's quarantine list
    \* what the monitor did
    detections                    \* HandleThreatDetection calls per path since the
                                  \* file last appeared there

VARIABLES
    \* Scanner
    m_isScanning,                 \* std::atomic<bool> m_isScanning
    m_cancelRequested,            \* std::atomic<bool> m_cancelRequested
    m_scanThread,                 \* the thread m_scanThread is joinable for, or NotJoinable
    terminated,                   \* std::terminate was called
    ccpc,                         \* position of each client thread inside the Scanner
    cargs,                        \* the arguments of the client's StartScanAsync call
    cthread,                      \* the thread the client joins or has constructed
    tpc,                          \* position of each scan thread
    scan,                         \* the locals of each scan thread
    m_statistics,                 \* ScanStatistics m_statistics
    m_statisticsMutex,            \* the scan thread that holds m_statisticsMutex, or NotJoinable
    \* what the scanner did
    cancelDuring,                 \* CancelScan was called while the scan had files left
    cancelReentry                 \* how CancelScan, called from a callback, ended on each scan thread

statVars == <<m_statistics, m_statisticsMutex, cancelReentry>>
scannerVars == <<m_isScanning, m_cancelRequested, m_scanThread, terminated, ccpc, cargs,
                 cthread, tpc, scan, cancelDuring, statVars>>

monitorVars == <<m_running, m_realTimeProtectionEnabled, m_scanQueue, m_queueMutex,
                 steadyClock, wpc, request, cpc>>
engineVars == <<files, now, vault, m_quarantineEntries>>
historyVars == <<detections>>

VARIABLES
    \* ThreatEngine: the signature pass
    m_signatures,                 \* std::vector<VirusSignature> m_signatures
    m_databaseVersion,            \* uint32_t m_databaseVersion
    data,                         \* the bytes of the file under scan
    threatInfo,                   \* the ThreatInfo the signature pass fills, once it ran
    \* ThreatEngine: the quarantine store
    m_initialized,                \* bool m_initialized
    metadataFile,                 \* the entries SaveQuarantineMetadata wrote to metadata.dat
    call,                         \* the last call a client made on the quarantine, and its result
    qpc,                          \* where each thread inside ThreatEngine::QuarantineFile stands
    qlocal                        \* the locals of each thread inside QuarantineFile

VARIABLES
    \* FileMonitor: start, stop and the watch set, statement by statement
    lpc,                          \* where each thread that calls the FileMonitor stands
    larg,                         \* the path argument and the loop index of each caller
    m_pathsMutex,                 \* holder of m_pathsMutex, NoThread when free
    m_watchedPaths,               \* std::vector<std::wstring> m_watchedPaths
    m_watchHandles,               \* the keys of the map m_watchHandles (open handles)
    m_workerThreads,              \* std::vector<std::thread> m_workerThreads, by thread number
    m_monitorThread,              \* the thread m_monitorThread is joinable for, or NoThreadId
    tstate,                       \* the position of every thread Initialize has started
    spawned,                      \* number of threads started so far
    crashed,                      \* the process was ended (std::terminate, access violation)
    lastCall,                     \* the last FileMonitor call that returned
    requested                     \* directories the client added and did not remove

VARIABLES
    \* ArchiveScanner
    zipStack,                     \* the activations of scanZipArchive, outermost first
    written,                      \* bytes extractZipEntry wrote since scanArchive was called
    archiveResult                 \* the ArchiveScanResult scanArchive returned last

archiveVars == <<zipStack, written, archiveResult>>

VARIABLES
    \* ScheduledScanner
    systemClock,                  \* std::chrono::system_clock::now(), in half minutes
    m_scanInProgress,             \* std::atomic<bool> m_scanInProgress
    m_lastScanTime,               \* system_clock::time_point m_lastScanTime, NoTime when unset
    spc,                          \* where the scheduler thread and the manual scan thread stand
    wake,                         \* the time the scheduler thread's sleep_for ends
    fired                         \* scans the scheduler thread has started

schedVars == <<systemClock, m_scanInProgress, m_lastScanTime, spc, wake, fired>>

VARIABLES
    \* SessionManager
    m_sessionsMutex,              \* holder of m_sessionsMutex, NoThread when free
    m_sessions,                   \* the keys of the map m_sessions
    sespc                         \* where each thread inside the SessionManager stands

sessionVars == <<m_sessionsMutex, m_sessions, sespc>>
serviceVars == <<archiveVars, schedVars, sessionVars>>

lifeVars == <<lpc, larg, m_pathsMutex, m_watchedPaths, m_watchHandles, m_workerThreads,
              m_monitorThread, tstate, spawned, crashed, lastCall, requested, serviceVars>>

signatureVars == <<m_signatures, m_databaseVersion, data, threatInfo>>
threadVars == <<qpc, qlocal, lifeVars>>
storeVars == <<m_initialized, metadataFile, call, threadVars>>
vars == <<monitorVars, engineVars, historyVars, scannerVars, signatureVars, storeVars>>

\* The worker threads of the pool (m_workerThreads); the model runs two of
\* the identical workers that Initialize starts.
Workers == {"worker1", "worker2"}
NoThread == "none"
NoRequest == [filePath |-> "", priority |-> 0, timestamp |-> 0]

\* The threads that call Initialize, Shutdown, AddWatchPath and
\* RemoveWatchPath of the FileMonitor.
Callers == {"caller1", "caller2"}

\* The directories: one of the default watch paths of Initialize and one
\* the client adds; both exist and a handle can be opened on each.
DirRoot == "C:\\"
DirTest == "test_monitor"
DefaultDirs == {DirRoot}
ClientDirs == {DirTest}

\* A second directory a client adds, and a path at which no directory exists.
DirOther == "test_monitor2"
DirMissing == "nonexistent_directory"

\* Utils::DirectoryExists
DirectoryExists(path) == path # DirMissing

\* Number of times Initialize may start its threads in one behaviour.
MaxStarts == 2

\* The threads Initialize starts are numbered in the order of their start:
\* one per worker and the watch thread, each time.
ThreadIds == 1..(MaxStarts * (Cardinality(Workers) + 1))

\* A default-constructed std::thread (not joinable).
NoThreadId == 0
NoArg == [path |-> "", i |-> 0]
NoLifeCall == [op |-> "none", early |-> FALSE]

\* The threads that call into the Scanner (RPC handlers).
Clients == {"client1", "client2"}

\* The threads StartScanAsync constructs; the model lets it construct two.
ScanThreads == {"scan1", "scan2"}

\* A default-constructed std::thread: not joinable.
NotJoinable == "none"

\* The targets of the on-demand scans: a regular file, a folder and a drive.
TargetFile == "C:\\F\\x.exe"
TargetDir == "C:\\D"
TargetDrive == "D:"

\* A target that does not exist, and a target whose inspection raises
\* std::filesystem::filesystem_error.
TargetMissing == "C:\\missing"
TargetDenied == "C:\\denied"

\* The (type, targets) arguments the clients pass to StartScanAsync.
ScanArgs ==
    { [type |-> "File", targets |-> <<TargetFile>>],
      [type |-> "Folder", targets |-> <<TargetDir>>],
      [type |-> "Drive", targets |-> <<TargetDrive>>],
      [type |-> "Custom", targets |-> <<TargetDir>>],
      [type |-> "Custom", targets |-> <<TargetDir, TargetFile>>],
      [type |-> "Custom", targets |-> <<TargetFile, TargetDir>>] }

NoArgs == [type |-> "", targets |-> <<>>]

\* The locals of a scan thread: the type it runs, the paths CustomScan has
\* still to visit, the entries the directory iterator has still to yield,
\* CustomScan's finalResult and AsyncScanThread's result.
NoFile == [threat |-> FALSE, size |-> 0]

\* The ThreatInfo before the signature pass ran, and after a pass that found
\* nothing.
NotScanned == [scanned |-> FALSE, found |-> FALSE, threat_name |-> 0]
NoThreat == [scanned |-> TRUE, found |-> FALSE, threat_name |-> 0]

\* No file of the quarantine directory, and no call made yet.
NoName == [timestamp |-> 0 - 1, fileName |-> ""]

\* SessionManager: the thread of AntivirusService::InitializeService and the
\* service worker thread, which calls RefreshActiveSessions.
SessionThreads == {"service", "serviceWorker"}

\* ScheduledScanner: the scheduler thread and the detached thread of
\* TriggerScanNow; a default-constructed time_point.
SchedThreads == {"scheduler", "manual"}
NoTime == 0 - 1

\* ArchiveScanner: no entry under extraction, and no result returned yet.
NoArchiveEntry == [compressionMethod |-> 0, encrypted |-> FALSE, uncompressedSize |-> 0,
                   compressedSize |-> 0, isDirectory |-> FALSE, isArchive |-> FALSE]
NoResult == [scanned |-> FALSE, nestingLevel |-> 0, filesExtracted |-> 0,
             totalSize |-> 0, notScanned |-> 0, nestedResults |-> 0,
             errorMessage |-> "none"]

\* The threads that call ThreatEngine::QuarantineFile on the one engine: a
\* worker of the file monitor and the scheduled scanner.
Quarantiners == {"monitorWorker", "scheduledScanner"}

\* The locals of a thread that is not inside QuarantineFile.
NoEntry == [originalPath |-> "", quarantinePath |-> NoName, threatName |-> "",
            quarantineTime |-> 0]
NoLocal == [entry |-> NoEntry, last |-> 0, before |-> <<>>]
NoCall == [op |-> "", originalPath |-> "", quarantinePath |-> NoName, dest |-> "",
           database |-> <<>>, ok |-> FALSE]
NoScan == [type |-> "", targets |-> <<>>, paths |-> <<>>, dir |-> "", entries |-> 0, file |-> NoFile,
           finalResult |-> "Success", result |-> "Success"]

\* ScanStatistics(): the counters after construction and after
\* ResetStatistics.
NoStatistics == [totalFiles |-> 0, scannedFiles |-> 0, skippedFiles |-> 0,
                 threatsFound |-> 0]

\* ScanOptions::maxFileSize, in MiB.
maxFileSize == 100

FileActions == {"FILE_ACTION_ADDED", "FILE_ACTION_REMOVED", "FILE_ACTION_MODIFIED",
                "FILE_ACTION_RENAMED_OLD_NAME", "FILE_ACTION_RENAMED_NEW_NAME"}

\* Utils::FileExists
FileExists(p) == p \in files

\* State after construction: FileMonitor::FileMonitor and an initialized
\* ThreatEngine with an empty quarantine directory; no file exists yet in
\* the watched directories.
InitEngine ==
    /\ m_running = FALSE
    /\ m_realTimeProtectionEnabled = TRUE
    /\ m_scanQueue = <<>>
    /\ m_queueMutex = NoThread
    /\ steadyClock = 0
    /\ wpc = [w \in Workers |-> "none"]
    /\ request = [w \in Workers |-> NoRequest]
    /\ cpc = "idle"
    /\ files = {}
    /\ now = 0
    /\ vault = {}
    /\ m_quarantineEntries = <<>>
    /\ detections = [p \in Paths |-> 0]
    /\ m_isScanning = FALSE
    /\ m_cancelRequested = FALSE
    /\ m_scanThread = NotJoinable
    /\ terminated = FALSE
    /\ ccpc = [c \in Clients |-> "idle"]
    /\ cargs = [c \in Clients |-> NoArgs]
    /\ cthread = [c \in Clients |-> NotJoinable]
    /\ tpc = [t \in ScanThreads |-> "unborn"]
    /\ scan = [t \in ScanThreads |-> NoScan]
    /\ cancelDuring = [t \in ScanThreads |-> FALSE]
    /\ m_statistics = NoStatistics
    /\ m_statisticsMutex = NotJoinable
    /\ cancelReentry = [t \in ScanThreads |-> "none"]
    /\ m_initialized = TRUE
    /\ metadataFile = <<>>
    /\ call = NoCall
    /\ qpc = [e \in Quarantiners |-> "idle"]
    /\ qlocal = [e \in Quarantiners |-> NoLocal]
    /\ m_sessionsMutex = NoThread
    /\ m_sessions = {}
    /\ sespc = [t \in SessionThreads |-> "idle"]
    /\ systemClock = 0
    /\ m_scanInProgress = FALSE
    /\ m_lastScanTime = NoTime
    /\ spc = [t \in SchedThreads |-> "none"]
    /\ wake = 0
    /\ fired = 0
    /\ zipStack = <<>>
    /\ written = 0
    /\ archiveResult = NoResult
    /\ lpc = [c \in Callers |-> "idle"]
    /\ larg = [c \in Callers |-> NoArg]
    /\ m_pathsMutex = NoThread
    /\ m_watchedPaths = <<>>
    /\ m_watchHandles = {}
    /\ m_workerThreads = <<>>
    /\ m_monitorThread = NoThreadId
    /\ tstate = [t \in ThreadIds |-> "unborn"]
    /\ spawned = 0
    /\ crashed = FALSE
    /\ lastCall = NoLifeCall
    /\ requested = {}

\* No signature is loaded and no file is under scan.
Init ==
    /\ InitEngine
    /\ m_signatures = <<>>
    /\ m_databaseVersion = 0
    /\ data = <<>>
    /\ threatInfo = NotScanned

\* ------------------------------------------------------------------------
\* FileMonitor: start, stop, configuration
\* ------------------------------------------------------------------------

\* FileMonitor::Initialize: sets m_running and starts the workers and the
\* watch thread.
Initialize ==
    /\ cpc = "idle"
    /\ UNCHANGED <<scannerVars, signatureVars, storeVars>>
    /\ ~m_running
    /\ m_running' = TRUE
    /\ wpc' = [w \in Workers |-> "loop"]
    /\ UNCHANGED <<m_realTimeProtectionEnabled, m_scanQueue, m_queueMutex, steadyClock,
                   request, cpc, engineVars, historyVars>>

\* FileMonitor::Shutdown, up to m_running.store(false).
ShutdownStore ==
    /\ cpc = "idle"
    /\ UNCHANGED <<scannerVars, signatureVars, storeVars>>
    /\ m_running
    /\ m_running' = FALSE
    /\ cpc' = "notify"
    /\ UNCHANGED <<m_realTimeProtectionEnabled, m_scanQueue, m_queueMutex, steadyClock,
                   wpc, request, engineVars, historyVars>>

\* m_workCondition.notify_all(): every thread blocked in wait is woken and
\* will take the mutex again.
ShutdownNotify ==
    /\ cpc = "notify"
    /\ UNCHANGED <<scannerVars, signatureVars, storeVars>>
    /\ wpc' = [w \in Workers |-> IF wpc[w] = "waiting" THEN "lock" ELSE wpc[w]]
    /\ cpc' = "join"
    /\ UNCHANGED <<m_running, m_realTimeProtectionEnabled, m_scanQueue, m_queueMutex,
                   steadyClock, request, engineVars, historyVars>>

\* The joins of Shutdown: they return once every worker has left
\* WorkerThread; m_workerThreads.clear() follows.
ShutdownJoin ==
    /\ cpc = "join"
    /\ UNCHANGED <<scannerVars, signatureVars, storeVars>>
    /\ \A w \in Workers : wpc[w] = "exited"
    /\ wpc' = [w \in Workers |-> "none"]
    /\ cpc' = "idle"
    /\ UNCHANGED <<m_running, m_realTimeProtectionEnabled, m_scanQueue, m_queueMutex,
                   steadyClock, request, engineVars, historyVars>>

\* ------------------------------------------------------------------------
\* FileMonitor: the watch thread
\* ------------------------------------------------------------------------

\* m_workCondition.notify_one(): one thread blocked in wait, if any, is woken.
NotifyOne ==
    IF \E w \in Workers : wpc[w] = "waiting"
    THEN \E w \in Workers :
            /\ wpc[w] = "waiting"
            /\ wpc' = [wpc EXCEPT ![w] = "lock"]
    ELSE UNCHANGED wpc

\* ShouldSkipFile, DetermineScanPriority and the quarantine file name of
\* every path of the model, computed once.
SkipOf == [p \in Paths |-> ShouldSkipFile(p)]
PriorityOf == [p \in Paths |-> DetermineScanPriority(p)]

\* A ProcessFileEvent that does not test m_realTimeProtectionEnabled.
ProcessFileEventUnconditional(filePath, action) ==
    IF SkipOf[filePath]
    THEN UNCHANGED <<m_scanQueue, steadyClock, wpc>>
    ELSE IF action \in {"FILE_ACTION_ADDED", "FILE_ACTION_MODIFIED"}
    THEN /\ m_queueMutex = NoThread
         /\ steadyClock < MaxEvents
         /\ m_scanQueue' = QueuePush(m_scanQueue,
                                     [filePath |-> filePath,
                                      priority |-> PriorityOf[filePath],
                                      timestamp |-> steadyClock])
         /\ steadyClock' = steadyClock + 1
         /\ NotifyOne
    ELSE UNCHANGED <<m_scanQueue, steadyClock, wpc>>

\* FileMonitor::ProcessFileEvent
ProcessFileEvent(filePath, action) ==
    IF ~m_realTimeProtectionEnabled
    THEN UNCHANGED <<m_scanQueue, steadyClock, wpc>>
    ELSE IF SkipOf[filePath]
    THEN UNCHANGED <<m_scanQueue, steadyClock, wpc>>
    ELSE IF action \in {"FILE_ACTION_ADDED", "FILE_ACTION_MODIFIED"}
    THEN /\ m_queueMutex = NoThread
         /\ steadyClock < MaxEvents
         /\ m_scanQueue' = QueuePush(m_scanQueue,
                                     [filePath |-> filePath,
                                      priority |-> PriorityOf[filePath],
                                      timestamp |-> steadyClock])
         /\ steadyClock' = steadyClock + 1
         /\ NotifyOne
    ELSE UNCHANGED <<m_scanQueue, steadyClock, wpc>>

\* A change in a watched directory and its notification, as the watch thread
\* handles it (MonitorThread, ProcessDirectoryChanges): a file appears, is
\* rewritten or disappears, and ProcessFileEvent is called with the action.
FileEvent(filePath, action) ==
    /\ m_running
    /\ UNCHANGED <<scannerVars, signatureVars, storeVars>>
    /\ \/ /\ action \in {"FILE_ACTION_ADDED", "FILE_ACTION_RENAMED_NEW_NAME"}
          /\ filePath \notin files
          /\ files' = files \cup {filePath}
          /\ detections' = [detections EXCEPT ![filePath] = 0]
       \/ /\ action = "FILE_ACTION_MODIFIED"
          /\ filePath \in files
          /\ UNCHANGED <<files, detections>>
       \/ /\ action \in {"FILE_ACTION_REMOVED", "FILE_ACTION_RENAMED_OLD_NAME"}
          /\ filePath \in files
          /\ files' = files \ {filePath}
          /\ detections' = [detections EXCEPT ![filePath] = 0]
    /\ ProcessFileEvent(filePath, action)
    /\ UNCHANGED <<m_running, m_realTimeProtectionEnabled, m_queueMutex, request, cpc,
                   now, vault, m_quarantineEntries>>

\* ------------------------------------------------------------------------
\* FileMonitor: the worker threads
\* ------------------------------------------------------------------------

\* while (m_running.load())
WorkerLoop(w) ==
    /\ wpc[w] = "loop"
    /\ UNCHANGED <<scannerVars, signatureVars, storeVars>>
    /\ wpc' = [wpc EXCEPT ![w] = IF m_running THEN "lock" ELSE "exited"]
    /\ UNCHANGED <<m_running, m_realTimeProtectionEnabled, m_scanQueue, m_queueMutex,
                   steadyClock, request, cpc, engineVars, historyVars>>

\* The worker takes m_queueMutex (on entry, or again after a wake-up) and
\* evaluates the predicate of m_workCondition.wait.
WorkerLockAndTest(w) ==
    /\ wpc[w] = "lock"
    /\ UNCHANGED <<scannerVars, signatureVars, storeVars>>
    /\ m_queueMutex = NoThread
    /\ m_queueMutex' = w
    /\ wpc' = [wpc EXCEPT ![w] = IF m_scanQueue # <<>> \/ ~m_running
                                 THEN "check" ELSE "block"]
    /\ UNCHANGED <<m_running, m_realTimeProtectionEnabled, m_scanQueue, steadyClock,
                   request, cpc, engineVars, historyVars>>

\* The predicate was false: wait releases the mutex and blocks the thread.
WorkerWait(w) ==
    /\ wpc[w] = "block"
    /\ UNCHANGED <<scannerVars, signatureVars, storeVars>>
    /\ m_queueMutex' = NoThread
    /\ wpc' = [wpc EXCEPT ![w] = "waiting"]
    /\ UNCHANGED <<m_running, m_realTimeProtectionEnabled, m_scanQueue, steadyClock,
                   request, cpc, engineVars, historyVars>>

\* After the wait: break when stopped, else take the top request.
WorkerTake(w) ==
    /\ wpc[w] = "check"
    /\ UNCHANGED <<scannerVars, signatureVars, storeVars>>
    /\ m_queueMutex' = NoThread
    /\ IF ~m_running
       THEN /\ wpc' = [wpc EXCEPT ![w] = "exited"]
            /\ UNCHANGED <<m_scanQueue, request>>
       ELSE IF m_scanQueue # <<>>
       THEN /\ request' = [request EXCEPT ![w] = QueueTop(m_scanQueue)]
            /\ m_scanQueue' = QueuePop(m_scanQueue)
            /\ wpc' = [wpc EXCEPT ![w] = "process"]
       ELSE /\ wpc' = [wpc EXCEPT ![w] = "loop"]
            /\ UNCHANGED <<m_scanQueue, request>>
    /\ UNCHANGED <<m_running, m_realTimeProtectionEnabled, steadyClock, cpc,
                   engineVars, historyVars>>

\* A mutant of the auto-quarantine test: severity 8 is left out.
ShouldAutoQuarantineAbove(threat) == threat.threat_level > 8

\* The test of HandleThreatDetection: threat.threat_level >= 8
ShouldAutoQuarantine(threat) == threat.threat_level >= 8

\* FileMonitor::ProcessScanRequest: after the debounce sleep, FileExists and
\* m_threatEngine->ScanFile, which reports no threat when the file is gone;
\* on a threat, FileMonitor::HandleThreatDetection up to its call of
\* QuarantineFile.
ProcessScanRequest(w) ==
    LET p == request[w].filePath
        threat == ScanFile(p)
    IN  /\ wpc[w] = "process"
        /\ UNCHANGED <<scannerVars, signatureVars, storeVars>>
        /\ IF FileExists(p) /\ threat.threat_level > 0
           THEN /\ detections' = [detections EXCEPT ![p] = @ + 1]
                /\ IF ShouldAutoQuarantine(threat)
                   THEN /\ wpc' = [wpc EXCEPT ![w] = "quarantine"]
                        /\ UNCHANGED request
                   ELSE /\ wpc' = [wpc EXCEPT ![w] = "loop"]
                        /\ request' = [request EXCEPT ![w] = NoRequest]
           ELSE /\ wpc' = [wpc EXCEPT ![w] = "loop"]
                /\ request' = [request EXCEPT ![w] = NoRequest]
                /\ UNCHANGED detections
        /\ UNCHANGED <<m_running, m_realTimeProtectionEnabled, m_scanQueue, m_queueMutex,
                       steadyClock, cpc, engineVars>>

\* The name QuarantineFile gives the file in the quarantine directory:
\* to_wstring(timestamp) + "_" + filename.
FilenameOf == [q \in Paths \cup {PathCopy} |-> Filename(Chars(q))]
QuarantineName(p, timestamp) == [timestamp |-> timestamp, fileName |-> FilenameOf[p]]

\* MoveFile: the file is moved when the source exists, no file of the new
\* name exists and the file system does not refuse (permitted).
MoveFile(sourceExists, destinationExists, permitted) ==
    sourceExists /\ ~destinationExists /\ permitted

\* QuarantineFile, lines 204-221: the conditions under which it reaches the
\* success branch.
QuarantineMoves(p, permitted) ==
    /\ m_initialized
    /\ FileExists(p)
    /\ MoveFile(FileExists(p), QuarantineName(p, now) \in vault, permitted)

\* An entry that is appended whether or not the file was moved.
EntriesAfterQuarantineAlways(moved, entry) == Append(m_quarantineEntries, entry)

\* QuarantineFile, lines 223-229: the entry is appended after a successful
\* move only.
EntriesAfterQuarantine(moved, entry) ==
    IF moved THEN Append(m_quarantineEntries, entry) ELSE m_quarantineEntries

\* A quarantine that copies the file and leaves the original.
FilesAfterQuarantineCopy(moved, p) == files

\* The files at their original paths after QuarantineFile.
FilesAfterQuarantine(moved, p) ==
    IF moved THEN files \ {p} ELSE files

\* ThreatEngine::QuarantineFile(filePath, threatName): the file is moved
\* into the quarantine directory, the entry is appended and
\* SaveQuarantineMetadata rewrites metadata.dat; on any failure nothing is
\* changed and false is returned.
ThreatEngineQuarantineFile(p, threatName, permitted) ==
    LET quarantineFile == QuarantineName(p, now)
        moved == QuarantineMoves(p, permitted)
        entry == [originalPath |-> p,
                  quarantinePath |-> quarantineFile,
                  threatName |-> threatName,
                  quarantineTime |-> now]
    IN  /\ files' = FilesAfterQuarantine(moved, p)
        /\ vault' = IF moved THEN vault \cup {quarantineFile} ELSE vault
        /\ m_quarantineEntries' = EntriesAfterQuarantine(moved, entry)
        /\ metadataFile' = IF moved THEN m_quarantineEntries' ELSE metadataFile

\* HandleThreatDetection calls ThreatEngine::QuarantineFile on a worker.
QuarantineFile(w) ==
    LET p == request[w].filePath
    IN  /\ wpc[w] = "quarantine"
        /\ UNCHANGED <<scannerVars, signatureVars, m_initialized, call, threadVars>>
        /\ ThreatEngineQuarantineFile(p, ScanFile(p).threat_name, TRUE)
        /\ detections' = IF QuarantineMoves(p, TRUE)
                         THEN [detections EXCEPT ![p] = 0]
                         ELSE detections
        /\ wpc' = [wpc EXCEPT ![w] = "loop"]
        /\ request' = [request EXCEPT ![w] = NoRequest]
        /\ UNCHANGED <<m_running, m_realTimeProtectionEnabled, m_scanQueue, m_queueMutex,
                       steadyClock, cpc, now>>

\* The wall clock reaches the next second.
Tick ==
    /\ now < MaxTime
    /\ UNCHANGED <<scannerVars, signatureVars, storeVars>>
    /\ now' = now + 1
    /\ UNCHANGED <<monitorVars, files, vault, m_quarantineEntries, historyVars>>

WorkerStep(w) ==
    \/ WorkerLoop(w)
    \/ WorkerLockAndTest(w)
    \/ WorkerWait(w)
    \/ WorkerTake(w)
    \/ ProcessScanRequest(w)
    \/ QuarantineFile(w)

\* ------------------------------------------------------------------------
\* Scanner: StartScanAsync and CancelScan, called by client threads
\* ------------------------------------------------------------------------

\* The scan threads that were constructed and have not returned.
Running == {t \in ScanThreads : tpc[t] \notin {"unborn", "done"}}

\* Scanner::StartScanAsync, line 142: the test of m_isScanning. The call
\* returns false when a scan is marked in progress.
StartScanAsyncCheck(c, type, targets) ==
    /\ ~terminated
    /\ ccpc[c] = "idle"
    /\ IF m_isScanning
       THEN UNCHANGED <<ccpc, cargs>>
       ELSE /\ Cardinality({d \in Clients :
                       ccpc[d] \in {"start_store", "start_joinable", "start_join",
                                    "start_thread"}})
                 < Cardinality({t \in ScanThreads : tpc[t] = "unborn"})
            /\ ccpc' = [ccpc EXCEPT ![c] = "start_store"]
            /\ cargs' = [cargs EXCEPT ![c] = [type |-> type, targets |-> targets]]
    /\ UNCHANGED <<m_isScanning, m_cancelRequested, m_scanThread, terminated, cthread,
                   tpc, scan, cancelDuring>>
    /\ UNCHANGED <<monitorVars, engineVars, historyVars, signatureVars, storeVars, statVars>>

\* Lines 146-147: the two stores.
StartScanAsyncStore(c) ==
    /\ ~terminated
    /\ ccpc[c] = "start_store"
    /\ m_cancelRequested' = FALSE
    /\ m_isScanning' = TRUE
    /\ ccpc' = [ccpc EXCEPT ![c] = "start_joinable"]
    /\ UNCHANGED <<m_scanThread, terminated, cargs, cthread, tpc, scan, cancelDuring>>
    /\ UNCHANGED <<monitorVars, engineVars, historyVars, signatureVars, storeVars, statVars>>

\* m_scanThread.joinable(), in StartScanAsync (line 150) and in CancelScan
\* (line 162): the caller goes on to join the thread it saw, or past the join.
Joinable(c, at, join, past) ==
    /\ ~terminated
    /\ ccpc[c] = at
    /\ IF m_scanThread # NotJoinable
       THEN /\ cthread' = [cthread EXCEPT ![c] = m_scanThread]
            /\ ccpc' = [ccpc EXCEPT ![c] = join]
       ELSE /\ ccpc' = [ccpc EXCEPT ![c] = past]
            /\ UNCHANGED cthread
    /\ UNCHANGED <<m_isScanning, m_cancelRequested, m_scanThread, terminated, cargs,
                   tpc, scan, cancelDuring>>
    /\ UNCHANGED <<monitorVars, engineVars, historyVars, signatureVars, storeVars, statVars>>

\* m_scanThread.join() (lines 151 and 163) returns when the thread has
\* returned and leaves m_scanThread not joinable. m_scanThread is not
\* protected by any lock: when another client has changed it since this
\* caller tested joinable(), the calls race on the std::thread object, and
\* the join either returns or ends the process.
Join(c, at, past) ==
    /\ ~terminated
    /\ ccpc[c] = at
    /\ tpc[cthread[c]] = "done"
    /\ IF m_scanThread = cthread[c]
       THEN /\ m_scanThread' = NotJoinable
            /\ ccpc' = [ccpc EXCEPT ![c] = past]
            /\ UNCHANGED terminated
       ELSE /\ UNCHANGED m_scanThread
            /\ \/ /\ ccpc' = [ccpc EXCEPT ![c] = past]
                  /\ UNCHANGED terminated
               \/ /\ terminated' = TRUE
                  /\ UNCHANGED ccpc
    /\ cthread' = [cthread EXCEPT ![c] = NotJoinable]
    /\ UNCHANGED <<m_isScanning, m_cancelRequested, cargs, tpc, scan, cancelDuring>>
    /\ UNCHANGED <<monitorVars, engineVars, historyVars, signatureVars, storeVars, statVars>>

StartScanAsyncJoinable(c) == Joinable(c, "start_joinable", "start_join", "start_thread")

StartScanAsyncJoin(c) == Join(c, "start_join", "start_thread")

\* Line 154, right-hand side: std::thread(&Scanner::AsyncScanThread, this,
\* type, targets) constructs the thread, which starts to run.
StartScanAsyncThread(c) ==
    /\ ~terminated
    /\ ccpc[c] = "start_thread"
    /\ LET t == CHOOSE u \in ScanThreads : tpc[u] = "unborn"
       IN /\ tpc' = [tpc EXCEPT ![t] = "entry"]
          /\ scan' = [scan EXCEPT ![t] = [NoScan EXCEPT !.type = cargs[c].type,
                                                        !.targets = cargs[c].targets,
                                                        !.paths = cargs[c].targets]]
          /\ cthread' = [cthread EXCEPT ![c] = t]
    /\ ccpc' = [ccpc EXCEPT ![c] = "start_assign"]
    /\ UNCHANGED <<m_isScanning, m_cancelRequested, m_scanThread, terminated, cargs,
                   cancelDuring>>
    /\ UNCHANGED <<monitorVars, engineVars, historyVars, signatureVars, storeVars, statVars>>

\* Line 154, the move assignment to m_scanThread: std::thread::operator=
\* calls std::terminate when the target is joinable. Line 156: return true.
StartScanAsyncAssign(c) ==
    /\ ~terminated
    /\ ccpc[c] = "start_assign"
    /\ IF m_scanThread # NotJoinable
       THEN /\ terminated' = TRUE
            /\ UNCHANGED <<m_scanThread, ccpc, cargs, cthread>>
       ELSE /\ m_scanThread' = cthread[c]
            /\ ccpc' = [ccpc EXCEPT ![c] = "idle"]
            /\ cargs' = [cargs EXCEPT ![c] = NoArgs]
            /\ cthread' = [cthread EXCEPT ![c] = NotJoinable]
            /\ UNCHANGED terminated
    /\ UNCHANGED <<m_isScanning, m_cancelRequested, tpc, scan, cancelDuring>>
    /\ UNCHANGED <<monitorVars, engineVars, historyVars, signatureVars, storeVars, statVars>>

\* The scan of thread t has a file scan ahead of it.
FilesLeft(t) ==
    \/ tpc[t] = "single_file"
    \/ tpc[t] = "dir_loop" /\ scan[t].entries > 0
    \/ tpc[t] = "custom_loop" /\ scan[t].paths # <<>>

\* Scanner::CancelScan, line 160: the store to the cancel flag.
CancelScanStore(c) ==
    /\ ~terminated
    /\ ccpc[c] = "idle"
    /\ m_cancelRequested' = TRUE
    /\ cancelDuring' = [t \in ScanThreads |->
                           cancelDuring[t] \/ (m_scanThread = t /\ FilesLeft(t))]
    /\ ccpc' = [ccpc EXCEPT ![c] = "cancel_joinable"]
    /\ UNCHANGED <<m_isScanning, m_scanThread, terminated, cargs, cthread, tpc, scan>>
    /\ UNCHANGED <<monitorVars, engineVars, historyVars, signatureVars, storeVars, statVars>>

CancelScanJoinable(c) == Joinable(c, "cancel_joinable", "cancel_join", "cancel_finish")

CancelScanJoin(c) == Join(c, "cancel_join", "cancel_finish")

\* Line 166: m_isScanning.store(false), and CancelScan returns.
CancelScanFinish(c) ==
    /\ ~terminated
    /\ ccpc[c] = "cancel_finish"
    /\ m_isScanning' = FALSE
    /\ ccpc' = [ccpc EXCEPT ![c] = "idle"]
    /\ UNCHANGED <<m_cancelRequested, m_scanThread, terminated, cargs, cthread, tpc,
                   scan, cancelDuring>>
    /\ UNCHANGED <<monitorVars, engineVars, historyVars, signatureVars, storeVars, statVars>>

\* ------------------------------------------------------------------------
\* Scanner: the scan thread
\* ------------------------------------------------------------------------

\* Scanner::ScanDrive, lines 68-73: the drive letter made into a root path.
DrivePath(driveLetter) ==
    CASE driveLetter = "D" -> "D:\\"
      [] driveLetter = "D:" -> "D:\\"
      [] OTHER -> driveLetter

\* std::filesystem::is_directory on the scanned tree.
IsDirectory(path) == path \in {TargetDir, "D:\\"}

\* The number of regular files recursive_directory_iterator yields.
DirEntries(path) == IF path = TargetDir THEN MaxDirFiles ELSE 1

\* The scanned tree. The regular file x.exe holds a threat; the folder holds
\* a file with a threat, then a file larger than maxFileSize, then clean
\* files; the drive holds one clean file. Sizes are in MiB.
FileAt(path, index) ==
    IF path = TargetFile THEN [threat |-> TRUE, size |-> 1]
    ELSE IF path = TargetDir /\ index = 1 THEN [threat |-> TRUE, size |-> 1]
    ELSE IF path = TargetDir /\ index = 2 THEN [threat |-> FALSE, size |-> 200]
    ELSE [threat |-> FALSE, size |-> 1]

\* Scanner::ShouldScanFile with the default options: no extension filter,
\* and no file of the tree under an excluded path.
ShouldScanFile(file) == file.size <= maxFileSize

\* The result CustomScan keeps after a path returned result (lines 122-124).
Combine(finalResult, result) ==
    IF result # "Success" /\ finalResult = "Success" THEN result ELSE finalResult

\* Utils::FileExists or Utils::DirectoryExists (scanner.cpp line 170).
PathExists(path) == path # TargetMissing

\* Scanner::ScanPath, lines 170-207, for a path that is not excluded: Failed
\* when the path does not exist, AccessDenied when the file system raises an
\* error; a regular file goes to ScanSingleFile, a directory to
\* ScanDirectoryRecursive. The value returned at once reaches CustomScan
\* (lines 121-124) or AsyncScanThread.
ScanPath(t, path, rest) ==
    IF ~PathExists(path) \/ path = TargetDenied
    THEN LET result == IF ~PathExists(path) THEN "Failed" ELSE "AccessDenied"
         IN  IF scan[t].type = "Custom"
             THEN /\ tpc' = [tpc EXCEPT ![t] = "custom_loop"]
                  /\ scan' = [scan EXCEPT
                                 ![t].paths = rest,
                                 ![t].finalResult = Combine(scan[t].finalResult, result)]
             ELSE /\ tpc' = [tpc EXCEPT ![t] = "finish"]
                  /\ scan' = [scan EXCEPT ![t].paths = rest, ![t].result = result]
    ELSE IF IsDirectory(path)
    THEN /\ tpc' = [tpc EXCEPT ![t] = "dir_loop"]
         /\ scan' = [scan EXCEPT ![t].paths = rest, ![t].dir = path,
                                 ![t].entries = DirEntries(path)]
    ELSE /\ tpc' = [tpc EXCEPT ![t] = "single_file"]
         /\ scan' = [scan EXCEPT ![t].paths = rest, ![t].file = FileAt(path, 1)]

\* The value ScanPath or ScanSingleFile returns reaches the caller: CustomScan
\* keeps it in finalResult and loops, ScanFile, ScanFolder and ScanDrive
\* return it to AsyncScanThread.
Return(t, result) ==
    IF scan[t].type = "Custom"
    THEN /\ tpc' = [tpc EXCEPT ![t] = "custom_loop"]
         /\ scan' = [scan EXCEPT ![t].finalResult = Combine(scan[t].finalResult, result),
                                 ![t].entries = 0, ![t].dir = "", ![t].file = NoFile]
    ELSE /\ tpc' = [tpc EXCEPT ![t] = "finish"]
         /\ scan' = [scan EXCEPT ![t].result = result, ![t].entries = 0, ![t].dir = "",
                                 ![t].file = NoFile]

\* ScanSingleFile returns: to ScanDirectoryRecursive, which drops the value
\* (line 289) and advances its iterator, or to the caller of ScanPath.
FileReturn(t, result) ==
    IF scan[t].entries > 0
    THEN /\ tpc' = [tpc EXCEPT ![t] = "dir_loop"]
         /\ scan' = [scan EXCEPT ![t].entries = scan[t].entries - 1, ![t].file = NoFile]
    ELSE Return(t, result)

\* Scanner::AsyncScanThread, lines 310-338: the switch on the scan type.
\* ScanFile and CustomScan begin with ResetStatistics (lines 37 and 110);
\* ScanFolder and ScanDrive go to ScanPath with the counters as they are.
AsyncScanThread(t) ==
    /\ ~terminated
    /\ tpc[t] = "entry"
    /\ LET type == scan[t].type
           targets == scan[t].paths
       IN  CASE type = "File" ->
                  /\ m_statisticsMutex = NotJoinable
                  /\ m_statistics' = NoStatistics
                  /\ tpc' = [tpc EXCEPT ![t] = "single_file"]
                  /\ scan' = [scan EXCEPT ![t].paths = <<>>,
                                          ![t].file = FileAt(targets[1], 1)]
             [] type = "Folder" ->
                  /\ ScanPath(t, targets[1], <<>>)
                  /\ UNCHANGED m_statistics
             [] type = "Drive" ->
                  /\ ScanPath(t, DrivePath(targets[1]), <<>>)
                  /\ UNCHANGED m_statistics
             [] OTHER ->
                  /\ m_statisticsMutex = NotJoinable
                  /\ m_statistics' = NoStatistics
                  /\ tpc' = [tpc EXCEPT ![t] = "custom_loop"]
                  /\ scan' = [scan EXCEPT ![t].finalResult = "Success"]
    /\ UNCHANGED <<m_isScanning, m_cancelRequested, m_scanThread, terminated, ccpc,
                   cargs, cthread, cancelDuring, m_statisticsMutex, cancelReentry>>
    /\ UNCHANGED <<monitorVars, engineVars, historyVars, signatureVars, storeVars>>

\* Scanner::CustomScan, lines 115-125 and 138: one turn of the loop over the
\* paths, or the return of finalResult.
CustomScan(t) ==
    /\ ~terminated
    /\ tpc[t] = "custom_loop"
    /\ IF scan[t].paths = <<>>
       THEN /\ tpc' = [tpc EXCEPT ![t] = "finish"]
            /\ scan' = [scan EXCEPT ![t].result = scan[t].finalResult]
       ELSE IF m_cancelRequested
       THEN /\ tpc' = [tpc EXCEPT ![t] = "finish"]
            /\ scan' = [scan EXCEPT ![t].finalResult = "Cancelled",
                                    ![t].result = "Cancelled"]
       ELSE ScanPath(t, Head(scan[t].paths), Tail(scan[t].paths))
    /\ UNCHANGED <<m_isScanning, m_cancelRequested, m_scanThread, terminated, ccpc,
                   cargs, cthread, cancelDuring, statVars>>
    /\ UNCHANGED <<monitorVars, engineVars, historyVars, signatureVars, storeVars>>

\* Scanner::ScanDirectoryRecursive, lines 273-289: the iterator yields the
\* next entry and the cancel flag is tested; totalFiles is counted under the
\* statistics mutex and ScanSingleFile is called. When the loop ends or
\* breaks, ScanPath returns Success (line 189).
ScanDirectoryRecursive(t) ==
    /\ ~terminated
    /\ tpc[t] = "dir_loop"
    /\ IF scan[t].entries = 0 \/ m_cancelRequested
       THEN /\ Return(t, "Success")
            /\ UNCHANGED m_statistics
       ELSE /\ m_statisticsMutex = NotJoinable
            /\ m_statistics' = [m_statistics EXCEPT !.totalFiles = @ + 1]
            /\ tpc' = [tpc EXCEPT ![t] = "single_file"]
            /\ scan' = [scan EXCEPT ![t].file =
                           FileAt(scan[t].dir, DirEntries(scan[t].dir) - scan[t].entries + 1)]
    /\ UNCHANGED <<m_isScanning, m_cancelRequested, m_scanThread, terminated, ccpc,
                   cargs, cthread, cancelDuring, m_statisticsMutex, cancelReentry>>
    /\ UNCHANGED <<monitorVars, engineVars, historyVars, signatureVars, storeVars>>

\* Scanner::ScanSingleFile, lines 211-221: Cancelled when the flag is set; a
\* file ShouldScanFile rejects is counted as skipped; else the scan goes on
\* to the progress callback.
ScanSingleFile(t) ==
    /\ ~terminated
    /\ tpc[t] = "single_file"
    /\ IF m_cancelRequested
       THEN /\ FileReturn(t, "Cancelled")
            /\ UNCHANGED m_statistics
       ELSE IF ~ShouldScanFile(scan[t].file)
       THEN /\ m_statisticsMutex = NotJoinable
            /\ m_statistics' = [m_statistics EXCEPT !.skippedFiles = @ + 1]
            /\ FileReturn(t, "Success")
       ELSE /\ tpc' = [tpc EXCEPT ![t] = "progress_cb"]
            /\ UNCHANGED <<scan, m_statistics>>
    /\ UNCHANGED <<m_isScanning, m_cancelRequested, m_scanThread, terminated, ccpc,
                   cargs, cthread, cancelDuring, m_statisticsMutex, cancelReentry>>
    /\ UNCHANGED <<monitorVars, engineVars, historyVars, signatureVars, storeVars>>

\* Lines 225-235: UpdateProgress takes and releases the statistics mutex,
\* the progress callback runs and returns, the engine scans the file.
ProgressCallback(t) ==
    /\ ~terminated
    /\ tpc[t] = "progress_cb"
    /\ m_statisticsMutex = NotJoinable
    /\ tpc' = [tpc EXCEPT ![t] = "stats"]
    /\ UNCHANGED <<m_isScanning, m_cancelRequested, m_scanThread, terminated, ccpc,
                   cargs, cthread, scan, cancelDuring, statVars>>
    /\ UNCHANGED <<monitorVars, engineVars, historyVars, signatureVars, storeVars>>

\* Lines 238-251: under the statistics mutex the file is counted as scanned;
\* for a threat, threatsFound is counted and the threat callback is invoked
\* with the mutex still held.
UpdateStatistics(t) ==
    /\ ~terminated
    /\ tpc[t] = "stats"
    /\ m_statisticsMutex = NotJoinable
    /\ IF scan[t].file.threat
       THEN /\ m_statistics' = [m_statistics EXCEPT !.scannedFiles = @ + 1,
                                                   !.threatsFound = @ + 1]
            /\ m_statisticsMutex' = t
            /\ tpc' = [tpc EXCEPT ![t] = "threat_cb"]
            /\ UNCHANGED scan
       ELSE /\ m_statistics' = [m_statistics EXCEPT !.scannedFiles = @ + 1]
            /\ FileReturn(t, "Success")
            /\ UNCHANGED m_statisticsMutex
    /\ UNCHANGED <<m_isScanning, m_cancelRequested, m_scanThread, terminated, ccpc,
                   cargs, cthread, cancelDuring, cancelReentry>>
    /\ UNCHANGED <<monitorVars, engineVars, historyVars, signatureVars, storeVars>>

\* Lines 249-254: the threat callback returns, the mutex is released and
\* ScanSingleFile returns Success.
ThreatCallback(t) ==
    /\ ~terminated
    /\ tpc[t] = "threat_cb"
    /\ m_statisticsMutex' = NotJoinable
    /\ FileReturn(t, "Success")
    /\ UNCHANGED <<m_isScanning, m_cancelRequested, m_scanThread, terminated, ccpc,
                   cargs, cthread, cancelDuring, m_statistics, cancelReentry>>
    /\ UNCHANGED <<monitorVars, engineVars, historyVars, signatureVars, storeVars>>

\* A callback calls Scanner::CancelScan on the scan thread (lines 160-166).
\* When m_scanThread is joinable for this very thread, join() throws
\* std::system_error (resource_deadlock_would_occur); the exception leaves
\* the callback and is caught in ScanSingleFile (lines 256-267), which counts
\* the file as skipped and returns Failed. When m_scanThread is not joinable
\* (StartScanAsync has not assigned it yet), CancelScan stores m_isScanning
\* and returns, and the scan of the file goes on at pc next.
CancelScanInCallback(t, next) ==
    /\ m_scanThread \in {t, NotJoinable}
    /\ m_cancelRequested' = TRUE
    /\ IF m_scanThread = t
       THEN /\ cancelReentry' = [cancelReentry EXCEPT ![t] = "threw"]
            /\ m_statistics' = [m_statistics EXCEPT !.skippedFiles = @ + 1]
            /\ FileReturn(t, "Failed")
            /\ UNCHANGED m_isScanning
       ELSE /\ cancelReentry' = [cancelReentry EXCEPT ![t] = "returned"]
            /\ m_isScanning' = FALSE
            /\ UNCHANGED m_statistics
            /\ IF next = "return"
               THEN FileReturn(t, "Success")
               ELSE /\ tpc' = [tpc EXCEPT ![t] = next]
                    /\ UNCHANGED scan

\* The progress callback (line 227) calls CancelScan.
ProgressCallbackCancel(t) ==
    /\ ~terminated
    /\ tpc[t] = "progress_cb"
    /\ m_statisticsMutex = NotJoinable
    /\ CancelScanInCallback(t, "stats")
    /\ UNCHANGED <<m_scanThread, terminated, ccpc, cargs, cthread, cancelDuring,
                   m_statisticsMutex>>
    /\ UNCHANGED <<monitorVars, engineVars, historyVars, signatureVars, storeVars>>

\* The threat callback (line 249) calls CancelScan; the lock_guard releases
\* the statistics mutex when the callback returns or throws.
ThreatCallbackCancel(t) ==
    /\ ~terminated
    /\ tpc[t] = "threat_cb"
    /\ CancelScanInCallback(t, "return")
    /\ m_statisticsMutex' = NotJoinable
    /\ UNCHANGED <<m_scanThread, terminated, ccpc, cargs, cthread, cancelDuring>>
    /\ UNCHANGED <<monitorVars, engineVars, historyVars, signatureVars, storeVars>>

\* AsyncScanThread, line 347: m_isScanning.store(false); the thread returns.
AsyncScanThreadFinish(t) ==
    /\ ~terminated
    /\ tpc[t] = "finish"
    /\ m_isScanning' = FALSE
    /\ tpc' = [tpc EXCEPT ![t] = "done"]
    /\ UNCHANGED <<m_cancelRequested, m_scanThread, terminated, ccpc, cargs, cthread,
                   scan, cancelDuring, statVars>>
    /\ UNCHANGED <<monitorVars, engineVars, historyVars, signatureVars, storeVars>>

\* The steps of a scan thread whose callbacks return at once.
ScanThreadStep(t) ==
    \/ AsyncScanThread(t)
    \/ CustomScan(t)
    \/ ScanDirectoryRecursive(t)
    \/ ScanSingleFile(t)
    \/ ProgressCallback(t)
    \/ UpdateStatistics(t)
    \/ ThreatCallback(t)
    \/ AsyncScanThreadFinish(t)

\* Scanner::ScanFile called synchronously by client c (lines 32-54), while no
\* scan thread runs, so that its steps interleave with nothing:
\* ResetStatistics, then ScanSingleFile (lines 211-254), which returns
\* Cancelled when m_cancelRequested is set and otherwise scans the file and
\* counts it. No store to m_cancelRequested or m_isScanning is made.
ScannerScanFile(c, filePath) ==
    /\ ~terminated
    /\ ccpc[c] = "idle"
    /\ Running = {}
    /\ m_statisticsMutex = NotJoinable
    /\ LET file == FileAt(filePath, 1)
           result == IF m_cancelRequested THEN "Cancelled" ELSE "Success"
       IN  /\ m_statistics' =
                  IF m_cancelRequested THEN NoStatistics
                  ELSE IF ~ShouldScanFile(file)
                  THEN [NoStatistics EXCEPT !.skippedFiles = 1]
                  ELSE [NoStatistics EXCEPT !.scannedFiles = 1,
                                            !.threatsFound = IF file.threat THEN 1 ELSE 0]
           /\ call' = [op |-> "ScanFile", filePath |-> filePath, result |-> result]
    /\ UNCHANGED <<m_isScanning, m_cancelRequested, m_scanThread, terminated, ccpc,
                   cargs, cthread, tpc, scan, cancelDuring, m_statisticsMutex,
                   cancelReentry>>
    /\ UNCHANGED <<monitorVars, engineVars, historyVars, signatureVars, m_initialized,
                   metadataFile, threadVars>>

\* The steps in which a callback re-enters the scanner.
CallbackStep(t) ==
    \/ ProgressCallbackCancel(t)
    \/ ThreatCallbackCancel(t)

\* ------------------------------------------------------------------------
\* ThreatEngine: the signature pass
\* ------------------------------------------------------------------------

\* The byte values of signatures and files.
Bytes == {"a", "b"}

\* The byte sequences of VirusSignature::signature; LoadSignatures and
\* AddSignature accept an empty one.
Patterns == {<<>>, <<"a">>, <<"b">>, <<"a", "b">>}

\* VirusSignature::offset: -1 for anywhere, >= 0 for a fixed offset.
Offsets == {0 - 1, 0, 1}

\* The signature lists of at most MaxSignatures entries; a signature is
\* named by its place in the list.
SignatureLists ==
    UNION {{[i \in 1..k |-> [name |-> i, signature |-> f[i].signature,
                             offset |-> f[i].offset]] :
                f \in [1..k -> [signature : Patterns, offset : Offsets]]} :
           k \in 0..MaxSignatures}

\* The files of at most MaxDataLen bytes.
Buffers == UNION {[1..k -> Bytes] : k \in 0..MaxDataLen}

\* The test of line 426 with < in place of <=.
FitsAtOffsetStrict(offset, size, dataSize) == offset + size < dataSize

\* ScanWithSignatures, line 426: the signature lies within the data.
FitsAtOffset(offset, size, dataSize) == offset + size <= dataSize

\* std::equal(signature.begin(), signature.end(), data.begin() + offset).
Equal(signature, bytes, offset) ==
    \A i \in 1..Len(signature) : bytes[offset + i] = signature[i]

\* std::search(data.begin(), data.end(), signature.begin(), signature.end()):
\* the first position at which the signature occurs, or Len(bytes) for
\* data.end().
Search(bytes, signature) ==
    LET found == {k \in 0..(Len(bytes) - Len(signature)) : Equal(signature, bytes, k)}
    IN  IF found = {} THEN Len(bytes)
        ELSE CHOOSE k \in found : \A other \in found : k <= other

\* ThreatEngine::ScanWithSignatures: the loop over m_signatures from entry i
\* on. An empty signature is passed over; the first signature found at its
\* offset, or anywhere for a negative offset, fills threat and ends the loop.
RECURSIVE ScanWithSignaturesFrom(_, _, _)
ScanWithSignaturesFrom(signatures, bytes, i) ==
    IF i > Len(signatures) THEN NoThreat
    ELSE LET signature == signatures[i]
             detected == [scanned |-> TRUE, found |-> TRUE,
                          threat_name |-> signature.name]
         IN  IF signature.signature = <<>>
             THEN ScanWithSignaturesFrom(signatures, bytes, i + 1)
             ELSE IF signature.offset >= 0
             THEN IF /\ FitsAtOffset(signature.offset, Len(signature.signature),
                                     Len(bytes))
                     /\ Equal(signature.signature, bytes, signature.offset)
                  THEN detected
                  ELSE ScanWithSignaturesFrom(signatures, bytes, i + 1)
             ELSE IF Search(bytes, signature.signature) # Len(bytes)
                  THEN detected
                  ELSE ScanWithSignaturesFrom(signatures, bytes, i + 1)

\* ThreatEngine::ScanFile runs the signature pass on the bytes it read.
ScanWithSignatures ==
    /\ ~threatInfo.scanned
    /\ threatInfo' = ScanWithSignaturesFrom(m_signatures, data, 1)
    /\ UNCHANGED <<m_signatures, m_databaseVersion, data>>
    /\ UNCHANGED <<monitorVars, engineVars, historyVars, scannerVars, storeVars>>

\* The signature sets a client hands to update_database.
NewDatabases ==
    UNION {{[i \in 1..k |-> [name |-> i, signature |-> f[i].signature,
                             offset |-> f[i].offset]] :
                f \in [1..k -> [signature : Patterns \ {<<>>}, offset : Offsets]]} :
           k \in 0..1}

\* A client that has the signature set d to install calls
\* ThreatEngine::UpdateDatabase(): the function takes no argument, increments
\* m_databaseVersion and returns true; m_signatures is not touched.
UpdateDatabase(d) ==
    /\ m_databaseVersion < MaxVersion
    /\ m_databaseVersion' = m_databaseVersion + 1
    /\ call' = [NoCall EXCEPT !.op = "update", !.database = d, !.ok = TRUE]
    /\ UNCHANGED <<m_signatures, data, threatInfo, m_initialized, metadataFile, threadVars>>
    /\ UNCHANGED <<monitorVars, engineVars, historyVars, scannerVars>>

\* ThreatEngine::ScanFile reads the next file: a new signature pass begins.
ReadFile(bytes) ==
    /\ threatInfo.scanned
    /\ data' = bytes
    /\ threatInfo' = NotScanned
    /\ UNCHANGED <<m_signatures, m_databaseVersion, storeVars>>
    /\ UNCHANGED <<monitorVars, engineVars, historyVars, scannerVars>>

\* Any signature list is loaded and any file is about to be scanned.
SignatureInit ==
    /\ InitEngine
    /\ m_signatures \in SignatureLists
    /\ m_databaseVersion = 0
    /\ data \in Buffers
    /\ threatInfo = NotScanned

SignatureNext == ScanWithSignatures

SignatureSpec == SignatureInit /\ [][SignatureNext]_vars

\* Files are scanned while a client updates the database.
DatabaseNext ==
    \/ ScanWithSignatures
    \/ \E bytes \in Buffers : ReadFile(bytes)
    \/ \E d \in NewDatabases : UpdateDatabase(d)

DatabaseSpec == SignatureInit /\ [][DatabaseNext]_vars

\* ------------------------------------------------------------------------
\* ThreatEngine: the quarantine store, called by a client
\* ------------------------------------------------------------------------

\* The files the client works on, and the names they can take in the
\* quarantine directory.
EnginePaths == {PathExe, PathDat}
QuarantineNames == {QuarantineName(p, t) : p \in EnginePaths, t \in 0..MaxTime}

\* ThreatEngine::Initialize, lines 26-28 and 47-54; the signature database
\* of the model holds no signature. The quarantine entries are not read
\* back: LoadQuarantineMetadata is declared and never called.
ThreatEngineInitialize ==
    /\ ~m_initialized
    /\ m_initialized' = TRUE
    /\ call' = [NoCall EXCEPT !.op = "initialize", !.ok = TRUE]
    /\ UNCHANGED <<metadataFile, threadVars, signatureVars>>
    /\ UNCHANGED <<monitorVars, engineVars, historyVars, scannerVars>>

\* ThreatEngine::Shutdown, lines 72-82.
ThreatEngineShutdown ==
    /\ m_initialized
    /\ m_initialized' = FALSE
    /\ m_signatures' = <<>>
    /\ call' = [NoCall EXCEPT !.op = "shutdown", !.ok = TRUE]
    /\ UNCHANGED <<metadataFile, threadVars, m_databaseVersion, data, threatInfo>>
    /\ UNCHANGED <<monitorVars, engineVars, historyVars, scannerVars>>

\* The process ends, by Shutdown or by a crash, and a new process constructs
\* the engine (ThreatEngine::ThreatEngine) and calls Initialize: the members
\* start empty and Initialize does not read metadata.dat; the files on disk
\* are as they were.
ProcessRestart ==
    /\ m_quarantineEntries' = <<>>
    /\ m_initialized' = TRUE
    /\ m_signatures' = <<>>
    /\ m_databaseVersion' = 0
    /\ call' = [NoCall EXCEPT !.op = "restart", !.ok = TRUE]
    /\ UNCHANGED <<files, now, vault, metadataFile, threadVars, data, threatInfo>>
    /\ UNCHANGED <<monitorVars, historyVars, scannerVars>>

\* A file is written at a path where none exists.
CreateFile(p) ==
    /\ p \notin files
    /\ files' = files \cup {p}
    /\ UNCHANGED <<now, vault, m_quarantineEntries>>
    /\ UNCHANGED <<monitorVars, historyVars, scannerVars, signatureVars, storeVars>>

\* A client calls ThreatEngine::QuarantineFile(filePath, threatName) and
\* gets its return value.
CallQuarantineFile(p, permitted) ==
    /\ ThreatEngineQuarantineFile(p, ScanFile(p).threat_name, permitted)
    /\ call' = [NoCall EXCEPT !.op = "quarantine", !.originalPath = p,
                              !.ok = QuarantineMoves(p, permitted)]
    /\ UNCHANGED <<now, m_initialized, threadVars>>
    /\ UNCHANGED <<monitorVars, historyVars, scannerVars, signatureVars>>

\* std::find_if, lines 255-258: the place of the first entry with the
\* quarantine path, or 0 for end().
FindEntry(quarantinePath) ==
    LET found == {i \in 1..Len(m_quarantineEntries) :
                     m_quarantineEntries[i].quarantinePath = quarantinePath}
    IN  IF found = {} THEN 0 ELSE CHOOSE i \in found : \A j \in found : i <= j

\* An erase that removes the last entry instead of the one found.
EraseLast(entries, i) == SubSeq(entries, 1, Len(entries) - 1)

\* m_quarantineEntries.erase(it).
Erase(entries, i) ==
    [k \in 1..(Len(entries) - 1) |-> IF k < i THEN entries[k] ELSE entries[k + 1]]

\* RestoreFromQuarantine, lines 260-261: an entry was found and MoveFile
\* took the file back to its original path.
RestoreMoves(quarantinePath, permitted) ==
    LET it == FindEntry(quarantinePath)
    IN  /\ it # 0
        /\ MoveFile(quarantinePath \in vault,
                    FileExists(m_quarantineEntries[it].originalPath), permitted)

\* An erase that does not wait for the move to succeed.
EntriesAfterRestoreAlways(moved, it) ==
    IF it # 0 THEN Erase(m_quarantineEntries, it) ELSE m_quarantineEntries

\* An entry that stays after the file has left the quarantine directory.
EntriesAfterRestoreNever(moved, it) == m_quarantineEntries

\* RestoreFromQuarantine, lines 260-266: the entry is erased after a
\* successful move only.
EntriesAfterRestore(moved, it) ==
    IF moved THEN Erase(m_quarantineEntries, it) ELSE m_quarantineEntries

\* ThreatEngine::RestoreFromQuarantine(quarantinePath): the file of the first
\* entry with this quarantine path is moved to the entry's originalPath, the
\* entry is erased and SaveQuarantineMetadata rewrites metadata.dat; else
\* nothing is changed and false is returned. There is no test of
\* m_initialized.
ThreatEngineRestoreFromQuarantine(quarantinePath, permitted) ==
    LET it == FindEntry(quarantinePath)
        moved == RestoreMoves(quarantinePath, permitted)
    IN  /\ files' = IF moved
                    THEN files \cup {m_quarantineEntries[it].originalPath}
                    ELSE files
        /\ vault' = IF moved THEN vault \ {quarantinePath} ELSE vault
        /\ m_quarantineEntries' = EntriesAfterRestore(moved, it)
        /\ metadataFile' = IF moved THEN m_quarantineEntries' ELSE metadataFile

\* A client that wants the file of a quarantine entry back at the path dest
\* calls ThreatEngine::RestoreFromQuarantine; the function takes the
\* quarantine path only, so dest does not reach the engine.
CallRestoreFromQuarantine(quarantinePath, dest, permitted) ==
    /\ ThreatEngineRestoreFromQuarantine(quarantinePath, permitted)
    /\ call' = [NoCall EXCEPT !.op = "restore", !.quarantinePath = quarantinePath,
                              !.dest = dest,
                              !.ok = RestoreMoves(quarantinePath, permitted)]
    /\ UNCHANGED <<now, m_initialized, threadVars>>
    /\ UNCHANGED <<monitorVars, historyVars, scannerVars, signatureVars>>

\* delete_entry(entry_id), which the service tests call as
\* deleteFromQuarantine and the engine under src/ does not implement: the
\* file of the entry is removed from the quarantine directory if the file
\* system permits (best effort), the entry is removed from the list
\* regardless, and the list is written to disk. An unknown entry is an error.
DeleteEntry(quarantinePath, permitted) ==
    LET it == FindEntry(quarantinePath)
    IN  /\ vault' = IF it # 0 /\ permitted THEN vault \ {quarantinePath} ELSE vault
        /\ m_quarantineEntries' =
               IF it # 0 THEN Erase(m_quarantineEntries, it) ELSE m_quarantineEntries
        /\ metadataFile' = IF it # 0 THEN m_quarantineEntries' ELSE metadataFile
        /\ UNCHANGED files

\* A client calls delete_entry and gets its result.
CallDeleteEntry(quarantinePath, permitted) ==
    /\ DeleteEntry(quarantinePath, permitted)
    /\ call' = [NoCall EXCEPT !.op = "delete", !.quarantinePath = quarantinePath,
                              !.ok = (FindEntry(quarantinePath) # 0)]
    /\ UNCHANGED <<now, m_initialized, threadVars>>
    /\ UNCHANGED <<monitorVars, historyVars, scannerVars, signatureVars>>

\* ------------------------------------------------------------------------
\* ThreatEngine::QuarantineFile, statement by statement, on several threads
\* ------------------------------------------------------------------------

\* QuarantineFile, lines 204-227, on thread e: the tests, MoveFile and the
\* construction of the entry. No mutex is taken. When a test or the move
\* fails the call returns false.
QuarantineFileMove(e, p) ==
    LET quarantineFile == QuarantineName(p, now)
        moved == QuarantineMoves(p, TRUE)
    IN  /\ qpc[e] = "idle"
        /\ files' = FilesAfterQuarantine(moved, p)
        /\ vault' = IF moved THEN vault \cup {quarantineFile} ELSE vault
        /\ qpc' = [qpc EXCEPT ![e] = IF moved THEN "push_back" ELSE "idle"]
        /\ qlocal' = [qlocal EXCEPT ![e] =
                         IF moved
                         THEN [NoLocal EXCEPT !.entry =
                                  [originalPath |-> p,
                                   quarantinePath |-> quarantineFile,
                                   threatName |-> ScanFile(p).threat_name,
                                   quarantineTime |-> now]]
                         ELSE NoLocal]
        /\ UNCHANGED <<now, m_quarantineEntries, m_initialized, metadataFile, call, lifeVars>>
        /\ UNCHANGED <<monitorVars, historyVars, scannerVars, signatureVars>>

\* m_quarantineEntries.push_back(entry), line 229: the vector's end is read.
PushBackRead(e) ==
    /\ qpc[e] = "push_back"
    /\ qlocal' = [qlocal EXCEPT ![e].last = Len(m_quarantineEntries)]
    /\ qpc' = [qpc EXCEPT ![e] = "push_back_store"]
    /\ UNCHANGED <<engineVars, m_initialized, metadataFile, call, lifeVars>>
    /\ UNCHANGED <<monitorVars, historyVars, scannerVars, signatureVars>>

\* push_back, continued: the entry is constructed at the end that was read
\* and the end is set one past it. With no lock, a push_back of another
\* thread between the two steps is overwritten; a slot below the new end
\* that no thread has filled holds no entry (NoEntry).
PushBackStore(e) ==
    /\ qpc[e] = "push_back_store"
    /\ m_quarantineEntries' =
           [i \in 1..(qlocal[e].last + 1) |->
               IF i = qlocal[e].last + 1 THEN qlocal[e].entry
               ELSE IF i <= Len(m_quarantineEntries) THEN m_quarantineEntries[i]
               ELSE NoEntry]
    /\ qpc' = [qpc EXCEPT ![e] = "save"]
    /\ UNCHANGED <<files, now, vault, qlocal, m_initialized, metadataFile, call, lifeVars>>
    /\ UNCHANGED <<monitorVars, historyVars, scannerVars, signatureVars>>

\* SaveQuarantineMetadata, lines 558-559: std::ofstream opens metadata.dat
\* for writing, which truncates the file.
SaveQuarantineMetadataOpen(e) ==
    /\ qpc[e] = "save"
    /\ qlocal' = [qlocal EXCEPT ![e].before = metadataFile]
    /\ metadataFile' = <<>>
    /\ qpc' = [qpc EXCEPT ![e] = "save_write"]
    /\ UNCHANGED <<engineVars, m_initialized, call, lifeVars>>
    /\ UNCHANGED <<monitorVars, historyVars, scannerVars, signatureVars>>

\* SaveQuarantineMetadata, lines 561-581: the count and the entries are
\* written into the open file; QuarantineFile returns true.
SaveQuarantineMetadataWrite(e) ==
    /\ qpc[e] = "save_write"
    /\ metadataFile' = m_quarantineEntries
    /\ qpc' = [qpc EXCEPT ![e] = "idle"]
    /\ qlocal' = [qlocal EXCEPT ![e] = NoLocal]
    /\ UNCHANGED <<engineVars, m_initialized, call, lifeVars>>
    /\ UNCHANGED <<monitorVars, historyVars, scannerVars, signatureVars>>

QuarantinerStep(e) ==
    \/ \E p \in EnginePaths : QuarantineFileMove(e, p)
    \/ PushBackRead(e)
    \/ PushBackStore(e)
    \/ SaveQuarantineMetadataOpen(e)
    \/ SaveQuarantineMetadataWrite(e)

\* One thread quarantines files that appear.
PersistNext ==
    \/ \E p \in EnginePaths : CreateFile(p)
    \/ QuarantinerStep("monitorWorker")
    \/ Tick

PersistSpec == Init /\ [][PersistNext]_vars

\* Two threads quarantine files that appear.
ConcurrentNext ==
    \/ \E p \in EnginePaths : CreateFile(p)
    \/ \E e \in Quarantiners : QuarantinerStep(e)
    \/ Tick

ConcurrentSpec == Init /\ [][ConcurrentNext]_vars

\* One client creates files, quarantines and restores them, and stops and
\* starts the engine.
EngineNext ==
    \/ \E p \in EnginePaths : CreateFile(p)
    \/ \E p \in EnginePaths, permitted \in BOOLEAN : CallQuarantineFile(p, permitted)
    \/ \E quarantinePath \in QuarantineNames, dest \in EnginePaths, permitted \in BOOLEAN :
           CallRestoreFromQuarantine(quarantinePath, dest, permitted)
    \/ ThreatEngineShutdown
    \/ ThreatEngineInitialize
    \/ Tick

EngineSpec == Init /\ [][EngineNext]_vars

\* The client also deletes entries; the destination it has in mind for a
\* restore plays no part here.
DeleteNext ==
    \/ \E p \in EnginePaths : CreateFile(p)
    \/ \E p \in EnginePaths, permitted \in BOOLEAN : CallQuarantineFile(p, permitted)
    \/ \E quarantinePath \in QuarantineNames, permitted \in BOOLEAN :
           CallRestoreFromQuarantine(quarantinePath, PathExe, permitted)
    \/ \E quarantinePath \in QuarantineNames, permitted \in BOOLEAN :
           CallDeleteEntry(quarantinePath, permitted)
    \/ Tick

DeleteSpec == Init /\ [][DeleteNext]_vars

\* The client quarantines two files that have the same file name in
\* different directories.
SameNamePaths == {PathExe, PathCopy}

SameNameNext ==
    \/ \E p \in SameNamePaths : CreateFile(p)
    \/ \E p \in SameNamePaths, permitted \in BOOLEAN : CallQuarantineFile(p, permitted)
    \/ Tick

SameNameSpec == Init /\ [][SameNameNext]_vars

\* ------------------------------------------------------------------------
\* FileMonitor: start, stop and the watch set, statement by statement
\* ------------------------------------------------------------------------

\* What the statements below leave alone.
monitorRest == <<m_realTimeProtectionEnabled, m_scanQueue, m_queueMutex, steadyClock,
                 wpc, request, cpc>>
lifeFrame == <<monitorRest, engineVars, historyVars, scannerVars, signatureVars,
               m_initialized, metadataFile, call, qpc, qlocal, serviceVars>>

\* The paths in m_watchedPaths.
Watched == {m_watchedPaths[i] : i \in 1..Len(m_watchedPaths)}

\* The watch thread is inside one of its loops over m_watchHandles (lines
\* 200 and 226) or inside the find of ProcessDirectoryChanges (line 272).
Iterating == \E t \in ThreadIds : tstate[t] \in {"iterate", "lookup"}

\* An unsynchronized write to a container another thread is reading or
\* writing is a data race: the write may go through or end the process.
RaceOutcomes(racing) == IF racing THEN BOOLEAN ELSE {FALSE}

\* A lookup that never finds the path.
AlreadyWatchingNever(path) == FALSE

\* AddWatchPath, line 118: std::find over m_watchedPaths.
AlreadyWatching(path) == path \in Watched

\* AddWatchPath, lines 116-128: the mutex is taken and the path is looked
\* up in m_watchedPaths; a path that is already watched returns, and so does
\* a path at which no directory exists.
AddWatchPathLock(c, path) ==
    /\ ~crashed
    /\ lpc[c] = "idle"
    /\ m_pathsMutex = NoThread
    /\ IF AlreadyWatching(path) \/ ~DirectoryExists(path)
       THEN /\ lastCall' = [op |-> "AddWatchPath", early |-> TRUE]
            /\ UNCHANGED <<lpc, larg, m_pathsMutex>>
       ELSE /\ lpc' = [lpc EXCEPT ![c] = "add_insert"]
            /\ larg' = [larg EXCEPT ![c] = [NoArg EXCEPT !.path = path]]
            /\ m_pathsMutex' = c
            /\ UNCHANGED lastCall
    /\ UNCHANGED <<m_running, m_watchedPaths, m_watchHandles, m_workerThreads,
                   m_monitorThread, tstate, spawned, crashed, requested>>
    /\ UNCHANGED lifeFrame

\* AddWatchPath, lines 130-154: the handle is opened
\* and the WatchInfo is inserted into m_watchHandles.
AddWatchPathInsert(c) ==
    /\ ~crashed
    /\ lpc[c] = "add_insert"
    /\ m_watchHandles' = m_watchHandles \cup {larg[c].path}
    /\ crashed' \in RaceOutcomes(Iterating)
    /\ lpc' = [lpc EXCEPT ![c] = "add_push"]
    /\ UNCHANGED <<m_running, larg, m_pathsMutex, m_watchedPaths, m_workerThreads,
                   m_monitorThread, tstate, spawned, lastCall, requested>>
    /\ UNCHANGED lifeFrame

\* AddWatchPath, lines 155-160: push_back on m_watchedPaths, and the
\* lock_guard releases the mutex.
AddWatchPathPushBack(c) ==
    /\ ~crashed
    /\ lpc[c] = "add_push"
    /\ m_watchedPaths' = Append(m_watchedPaths, larg[c].path)
    /\ m_pathsMutex' = NoThread
    /\ lpc' = [lpc EXCEPT ![c] = "idle"]
    /\ larg' = [larg EXCEPT ![c] = NoArg]
    /\ lastCall' = [op |-> "AddWatchPath", early |-> FALSE]
    /\ requested' = requested \cup {larg[c].path}
    /\ UNCHANGED <<m_running, m_watchHandles, m_workerThreads, m_monitorThread, tstate,
                   spawned, crashed>>
    /\ UNCHANGED lifeFrame

\* RemoveWatchPath, lines 163-168: the mutex is taken and the path is
\* erased from m_watchedPaths.
RemoveWatchPathErasePath(c, path) ==
    /\ ~crashed
    /\ lpc[c] = "idle"
    /\ m_pathsMutex = NoThread
    /\ m_pathsMutex' = c
    /\ m_watchedPaths' = SelectSeq(m_watchedPaths, LAMBDA d : d # path)
    /\ lpc' = [lpc EXCEPT ![c] = "remove_handle"]
    /\ larg' = [larg EXCEPT ![c] = [NoArg EXCEPT !.path = path]]
    /\ UNCHANGED <<m_running, m_watchHandles, m_workerThreads, m_monitorThread, tstate,
                   spawned, crashed, lastCall, requested>>
    /\ UNCHANGED lifeFrame

\* RemoveWatchPath, lines 170-181: the handle is closed and erased from
\* m_watchHandles, and the lock_guard releases the mutex.
RemoveWatchPathEraseHandle(c) ==
    /\ ~crashed
    /\ lpc[c] = "remove_handle"
    /\ m_watchHandles' = m_watchHandles \ {larg[c].path}
    /\ crashed' \in RaceOutcomes(Iterating /\ larg[c].path \in m_watchHandles)
    /\ m_pathsMutex' = NoThread
    /\ lpc' = [lpc EXCEPT ![c] = "idle"]
    /\ larg' = [larg EXCEPT ![c] = NoArg]
    /\ lastCall' = [op |-> "RemoveWatchPath", early |-> FALSE]
    /\ requested' = requested \ {larg[c].path}
    /\ UNCHANGED <<m_running, m_watchedPaths, m_workerThreads, m_monitorThread, tstate,
                   spawned>>
    /\ UNCHANGED lifeFrame

\* Initialize, lines 24-26: a running monitor returns true. No mutex is
\* taken, here or below.
InitializeLoad(c) ==
    /\ ~crashed
    /\ lpc[c] = "idle"
    /\ m_running \/ spawned + Cardinality(Workers) + 1 <= MaxStarts * (Cardinality(Workers) + 1)
    /\ IF m_running
       THEN /\ lastCall' = [op |-> "Initialize", early |-> TRUE]
            /\ UNCHANGED lpc
       ELSE /\ lpc' = [lpc EXCEPT ![c] = "init_add"]
            /\ UNCHANGED lastCall
    /\ UNCHANGED <<m_running, larg, m_pathsMutex, m_watchedPaths, m_watchHandles,
                   m_workerThreads, m_monitorThread, tstate, spawned, crashed, requested>>
    /\ UNCHANGED lifeFrame

\* Initialize, lines 34-46: AddWatchPath on each default path (each call
\* takes and releases the mutex).
InitializeAddWatchPath(c) ==
    /\ ~crashed
    /\ lpc[c] = "init_add"
    /\ m_pathsMutex = NoThread
    /\ m_watchHandles' = m_watchHandles \cup DefaultDirs
    /\ m_watchedPaths' = IF DirRoot \in Watched THEN m_watchedPaths
                         ELSE Append(m_watchedPaths, DirRoot)
    /\ crashed' \in RaceOutcomes(Iterating /\ DirRoot \notin Watched)
    /\ lpc' = [lpc EXCEPT ![c] = "init_store"]
    /\ UNCHANGED <<m_running, larg, m_pathsMutex, m_workerThreads, m_monitorThread, tstate,
                   spawned, lastCall, requested>>
    /\ UNCHANGED lifeFrame

\* Initialize, line 48: m_running.store(true).
InitializeStore(c) ==
    /\ ~crashed
    /\ lpc[c] = "init_store"
    /\ m_running' = TRUE
    /\ lpc' = [lpc EXCEPT ![c] = "init_emplace"]
    /\ larg' = [larg EXCEPT ![c] = NoArg]
    /\ UNCHANGED <<m_pathsMutex, m_watchedPaths, m_watchHandles, m_workerThreads,
                   m_monitorThread, tstate, spawned, crashed, lastCall, requested>>
    /\ UNCHANGED lifeFrame

\* Initialize, lines 51-53: one emplace_back on m_workerThreads starts one
\* worker thread; after the last one the loop is left. The vector may be
\* under the join loop or the clear of a Shutdown at that moment.
InitializeEmplaceBack(c) ==
    /\ ~crashed
    /\ lpc[c] = "init_emplace"
    /\ m_workerThreads' = Append(m_workerThreads, spawned + 1)
    /\ tstate' = [tstate EXCEPT ![spawned + 1] = "running"]
    /\ spawned' = spawned + 1
    /\ crashed' \in RaceOutcomes(\E d \in Callers \ {c} : lpc[d] = "stop_join")
    /\ IF larg[c].i + 1 = Cardinality(Workers)
       THEN /\ lpc' = [lpc EXCEPT ![c] = "init_monitor"]
            /\ larg' = [larg EXCEPT ![c] = NoArg]
       ELSE /\ larg' = [larg EXCEPT ![c].i = larg[c].i + 1]
            /\ UNCHANGED lpc
    /\ UNCHANGED <<m_running, m_pathsMutex, m_watchedPaths, m_watchHandles,
                   m_monitorThread, lastCall, requested>>
    /\ UNCHANGED lifeFrame

\* Initialize, lines 56-63: m_monitorThread = std::thread(...) and return
\* true. Move assignment to a std::thread that is joinable calls
\* std::terminate.
InitializeMonitorThread(c) ==
    /\ ~crashed
    /\ lpc[c] = "init_monitor"
    /\ IF m_monitorThread # NoThreadId
       THEN /\ crashed' = TRUE
            /\ UNCHANGED <<lpc, m_monitorThread, tstate, spawned, lastCall>>
       ELSE /\ m_monitorThread' = spawned + 1
            /\ tstate' = [tstate EXCEPT ![spawned + 1] = "loop"]
            /\ spawned' = spawned + 1
            /\ lpc' = [lpc EXCEPT ![c] = "idle"]
            /\ lastCall' = [op |-> "Initialize", early |-> FALSE]
            /\ UNCHANGED crashed
    /\ UNCHANGED <<m_running, larg, m_pathsMutex, m_watchedPaths, m_watchHandles,
                   m_workerThreads, requested>>
    /\ UNCHANGED lifeFrame

\* A Shutdown that never returns at its first test.
ShutdownReturnsEarlyNever == FALSE

\* Shutdown, lines 74-76: if (!m_running.load()) return.
ShutdownReturnsEarly == ~m_running

\* Shutdown is entered: it returns at once or goes on to stop the monitor.
\* No mutex is taken, here or below.
ShutdownLoad(c) ==
    /\ ~crashed
    /\ lpc[c] = "idle"
    /\ IF ShutdownReturnsEarly
       THEN /\ lastCall' = [op |-> "Shutdown", early |-> TRUE]
            /\ UNCHANGED lpc
       ELSE /\ lpc' = [lpc EXCEPT ![c] = "stop_store"]
            /\ UNCHANGED lastCall
    /\ UNCHANGED <<m_running, larg, m_pathsMutex, m_watchedPaths, m_watchHandles,
                   m_workerThreads, m_monitorThread, tstate, spawned, crashed, requested>>
    /\ UNCHANGED lifeFrame

\* Shutdown, lines 82-85: m_running.store(false) and notify_all.
ShutdownStoreFalse(c) ==
    /\ ~crashed
    /\ lpc[c] = "stop_store"
    /\ m_running' = FALSE
    /\ lpc' = [lpc EXCEPT ![c] = "stop_join"]
    /\ larg' = [larg EXCEPT ![c] = [NoArg EXCEPT !.i = 1]]
    /\ UNCHANGED <<m_pathsMutex, m_watchedPaths, m_watchHandles, m_workerThreads,
                   m_monitorThread, tstate, spawned, crashed, lastCall, requested>>
    /\ UNCHANGED lifeFrame

\* Shutdown, lines 88-92: the next thread of m_workerThreads is joined if
\* it is joinable; join returns when the thread has ended.
ShutdownJoinWorker(c) ==
    /\ ~crashed
    /\ lpc[c] = "stop_join"
    /\ larg[c].i <= Len(m_workerThreads)
    /\ LET t == m_workerThreads[larg[c].i]
       IN  /\ tstate[t] \in {"exited", "joined"}
           /\ tstate' = [tstate EXCEPT ![t] = "joined"]
    /\ larg' = [larg EXCEPT ![c].i = larg[c].i + 1]
    /\ UNCHANGED <<m_running, lpc, m_pathsMutex, m_watchedPaths, m_watchHandles,
                   m_workerThreads, m_monitorThread, spawned, crashed, lastCall, requested>>
    /\ UNCHANGED lifeFrame

\* Shutdown, line 93: the loop has reached the end of the vector and
\* m_workerThreads.clear() runs; an Initialize may be inside its
\* emplace_back loop at that moment.
ShutdownClearWorkers(c) ==
    /\ ~crashed
    /\ lpc[c] = "stop_join"
    /\ larg[c].i > Len(m_workerThreads)
    /\ m_workerThreads' = <<>>
    /\ crashed' \in RaceOutcomes(\E d \in Callers \ {c} : lpc[d] = "init_emplace")
    /\ lpc' = [lpc EXCEPT ![c] = "stop_monitor"]
    /\ larg' = [larg EXCEPT ![c] = NoArg]
    /\ UNCHANGED <<m_running, m_pathsMutex, m_watchedPaths, m_watchHandles,
                   m_monitorThread, tstate, spawned, lastCall, requested>>
    /\ UNCHANGED lifeFrame

\* Shutdown, lines 96-98: the watch thread is joined if m_monitorThread is
\* joinable.
ShutdownJoinMonitor(c) ==
    /\ ~crashed
    /\ lpc[c] = "stop_monitor"
    /\ IF m_monitorThread = NoThreadId
       THEN UNCHANGED <<m_monitorThread, tstate>>
       ELSE /\ tstate[m_monitorThread] = "exited"
            /\ tstate' = [tstate EXCEPT ![m_monitorThread] = "joined"]
            /\ m_monitorThread' = NoThreadId
    /\ lpc' = [lpc EXCEPT ![c] = "stop_close"]
    /\ UNCHANGED <<m_running, larg, m_pathsMutex, m_watchedPaths, m_watchHandles,
                   m_workerThreads, spawned, crashed, lastCall, requested>>
    /\ UNCHANGED lifeFrame

\* Shutdown, lines 101-112: every handle is closed, m_watchHandles and
\* m_watchedPaths are cleared, and Shutdown returns.
ShutdownCloseHandles(c) ==
    /\ ~crashed
    /\ lpc[c] = "stop_close"
    /\ m_watchHandles' = {}
    /\ m_watchedPaths' = <<>>
    /\ crashed' \in RaceOutcomes(Iterating)
    /\ lpc' = [lpc EXCEPT ![c] = "idle"]
    /\ lastCall' = [op |-> "Shutdown", early |-> FALSE]
    /\ UNCHANGED <<m_running, larg, m_pathsMutex, m_workerThreads, m_monitorThread,
                   tstate, spawned, requested>>
    /\ UNCHANGED lifeFrame

\* A step of a thread the model describes by its position only.
ThreadStep(t, from, to) ==
    /\ ~crashed
    /\ tstate[t] = from
    /\ tstate' = [tstate EXCEPT ![t] = to]
    /\ UNCHANGED <<m_running, lpc, larg, m_pathsMutex, m_watchedPaths, m_watchHandles,
                   m_workerThreads, m_monitorThread, spawned, crashed, lastCall, requested>>
    /\ UNCHANGED lifeFrame

\* WorkerThread: the loop while (m_running.load()) is left.
WorkerThreadExit(t) == ~m_running /\ ThreadStep(t, "running", "exited")

\* MonitorThread, line 197: while (m_running.load()) is left.
MonitorThreadExit(t) == ~m_running /\ ThreadStep(t, "loop", "exited")

\* MonitorThread, lines 197-232: the loop is entered and m_watchHandles is
\* iterated, for ReadDirectoryChangesW and for the list of events; no mutex
\* is taken.
MonitorThreadIterate(t) == m_running /\ ThreadStep(t, "loop", "iterate")

\* MonitorThread, lines 234-246: the iteration is over; the thread sleeps
\* or waits on the events.
MonitorThreadWait(t) == tstate[t] = "iterate" /\ ThreadStep(t, "iterate", "wait")

\* MonitorThread, lines 248-263: the wait timed out or failed.
MonitorThreadTimeout(t) == tstate[t] = "wait" /\ ThreadStep(t, "wait", "loop")

\* MonitorThread, lines 248-250: an event was signalled and
\* ProcessDirectoryChanges is entered; its m_watchHandles.find (line 272)
\* takes no mutex.
MonitorThreadSignalled(t) ==
    m_watchHandles # {} /\ ThreadStep(t, "wait", "lookup")

\* ProcessDirectoryChanges returns.
ProcessDirectoryChanges(t) == tstate[t] = "lookup" /\ ThreadStep(t, "lookup", "loop")

StartedThreadStep(t) ==
    \/ WorkerThreadExit(t)
    \/ MonitorThreadExit(t)
    \/ MonitorThreadIterate(t)
    \/ MonitorThreadWait(t)
    \/ MonitorThreadTimeout(t)
    \/ MonitorThreadSignalled(t)
    \/ ProcessDirectoryChanges(t)

AddWatchPath(c) ==
    \/ \E path \in ClientDirs : AddWatchPathLock(c, path)
    \/ AddWatchPathInsert(c)
    \/ AddWatchPathPushBack(c)

RemoveWatchPath(c) ==
    \/ \E path \in ClientDirs : RemoveWatchPathErasePath(c, path)
    \/ RemoveWatchPathEraseHandle(c)

InitializeStep(c) ==
    \/ InitializeLoad(c)
    \/ InitializeAddWatchPath(c)
    \/ InitializeStore(c)
    \/ InitializeEmplaceBack(c)
    \/ InitializeMonitorThread(c)

ShutdownStep(c) ==
    \/ ShutdownLoad(c)
    \/ ShutdownStoreFalse(c)
    \/ ShutdownJoinWorker(c)
    \/ ShutdownClearWorkers(c)
    \/ ShutdownJoinMonitor(c)
    \/ ShutdownCloseHandles(c)

\* One thread adds and removes directories and starts and stops the
\* monitor, one call after the other; the threads the monitor starts run
\* beside it.
LifecycleNext ==
    \/ AddWatchPath("caller1")
    \/ RemoveWatchPath("caller1")
    \/ InitializeStep("caller1")
    \/ ShutdownStep("caller1")
    \/ \E t \in ThreadIds : StartedThreadStep(t)

LifecycleSpec == Init /\ [][LifecycleNext]_vars

\* One thread adds a directory and starts the monitor while another thread
\* stops it.
StartStopNext ==
    \/ AddWatchPath("caller1")
    \/ InitializeStep("caller1")
    \/ ShutdownStep("caller2")
    \/ \E t \in ThreadIds : StartedThreadStep(t)

StartStopSpec == Init /\ [][StartStopNext]_vars

\* Two threads add and remove directories, one of which does not exist.
WatchSetDirs == {DirTest, DirOther, DirMissing}

WatchSetNext ==
    \/ \E c \in Callers, path \in WatchSetDirs : AddWatchPathLock(c, path)
    \/ \E c \in Callers : AddWatchPathInsert(c)
    \/ \E c \in Callers : AddWatchPathPushBack(c)
    \/ \E c \in Callers, path \in WatchSetDirs : RemoveWatchPathErasePath(c, path)
    \/ \E c \in Callers : RemoveWatchPathEraseHandle(c)

WatchSetSpec == Init /\ [][WatchSetNext]_vars

\* The process of the engine may end and start again.
RestartNext ==
    \/ EngineNext
    \/ ProcessRestart

RestartSpec == Init /\ [][RestartNext]_vars

\* The files that pass the event filter.
ScannedPaths == {PathExe, PathJs, PathDat}

\* The service at work: the monitor is started and stopped, files that pass
\* the filter are created, rewritten and deleted, the workers scan and
\* quarantine, the wall clock advances.
Next ==
    \/ Initialize
    \/ ShutdownStore
    \/ ShutdownNotify
    \/ ShutdownJoin
    \/ \E p \in ScannedPaths,
          action \in {"FILE_ACTION_ADDED", "FILE_ACTION_MODIFIED", "FILE_ACTION_REMOVED"} :
            FileEvent(p, action)
    \/ \E w \in Workers : WorkerStep(w)
    \/ Tick

Spec == Init /\ [][Next]_vars

\* The same service while the wall clock stands still: the decision to
\* quarantine does not read the clock.
DetectNext ==
    \/ Initialize
    \/ ShutdownStore
    \/ ShutdownNotify
    \/ ShutdownJoin
    \/ \E p \in ScannedPaths,
          action \in {"FILE_ACTION_ADDED", "FILE_ACTION_MODIFIED", "FILE_ACTION_REMOVED"} :
            FileEvent(p, action)
    \/ \E w \in Workers : WorkerStep(w)

DetectSpec == Init /\ [][DetectNext]_vars

\* The threads of the monitor are scheduled fairly: a worker that can take a
\* step eventually takes one, and so does the thread inside Shutdown.
FairSpec ==
    /\ Spec
    /\ \A w \in Workers : WF_vars(WorkerStep(w))
    /\ WF_vars(ShutdownNotify)
    /\ WF_vars(ShutdownJoin)

\* A file of the highest and one of the lowest priority that pass the event
\* filter, and the two files the filter skips.
QueuePaths == {PathExe, PathDat, PathTemp, PathLog}

\* The event filter and the queue: every kind of notification for every
\* path, while the monitor runs.
QueueNext ==
    \/ Initialize
    \/ \E p \in QueuePaths, action \in FileActions : FileEvent(p, action)
    \/ \E w \in Workers : WorkerStep(w)

QueueSpec == Init /\ [][QueueNext]_vars

\* FileMonitor::SetRealTimeProtection(enabled): the flag is exchanged; the
\* old value only decides whether a line is logged.
SetRealTimeProtection(enabled) ==
    /\ m_realTimeProtectionEnabled' = enabled
    /\ UNCHANGED <<m_running, m_scanQueue, m_queueMutex, steadyClock, wpc, request, cpc,
                   engineVars, historyVars>>
    /\ UNCHANGED <<scannerVars, signatureVars, storeVars>>

\* The control API switches real-time protection off and on while events
\* arrive for a file that passes the filter and for one that does not.
ProtectionPaths == {PathExe, PathTemp}

ProtectionNext ==
    \/ Initialize
    \/ \E p \in ProtectionPaths, action \in FileActions : FileEvent(p, action)
    \/ \E w \in Workers : WorkerStep(w)
    \/ \E enabled \in BOOLEAN : SetRealTimeProtection(enabled)

ProtectionSpec == Init /\ [][ProtectionNext]_vars

\* The on-demand scanner: clients start and cancel scans, the scan threads
\* run.
ScannerNext ==
    \/ \E c \in Clients, args \in ScanArgs :
          StartScanAsyncCheck(c, args.type, args.targets)
    \/ \E c \in Clients : StartScanAsyncStore(c)
    \/ \E c \in Clients : StartScanAsyncJoinable(c)
    \/ \E c \in Clients : StartScanAsyncJoin(c)
    \/ \E c \in Clients : StartScanAsyncThread(c)
    \/ \E c \in Clients : StartScanAsyncAssign(c)
    \/ \E c \in Clients : CancelScanStore(c)
    \/ \E c \in Clients : CancelScanJoinable(c)
    \/ \E c \in Clients : CancelScanJoin(c)
    \/ \E c \in Clients : CancelScanFinish(c)
    \/ \E t \in ScanThreads : ScanThreadStep(t)

ScannerSpec == Init /\ [][ScannerNext]_vars

\* One client starts custom scans over targets of which some fail; no scan
\* is cancelled.
TargetsArgs ==
    { <<TargetMissing, TargetDenied>>, <<TargetDenied, TargetMissing>>,
      <<TargetMissing, TargetDir>>, <<TargetDenied, TargetDir>>,
      <<TargetDir, TargetMissing, TargetDenied>> }

TargetsNext ==
    \/ \E targets \in TargetsArgs : StartScanAsyncCheck("client1", "Custom", targets)
    \/ StartScanAsyncStore("client1")
    \/ StartScanAsyncJoinable("client1")
    \/ StartScanAsyncJoin("client1")
    \/ StartScanAsyncThread("client1")
    \/ StartScanAsyncAssign("client1")
    \/ \E t \in ScanThreads : ScanThreadStep(t)

TargetsSpec == Init /\ [][TargetsNext]_vars

\* One client starts and cancels scans; the callbacks return at once.
ScanNext ==
    \/ \E args \in ScanArgs : StartScanAsyncCheck("client1", args.type, args.targets)
    \/ StartScanAsyncStore("client1")
    \/ StartScanAsyncJoinable("client1")
    \/ StartScanAsyncJoin("client1")
    \/ StartScanAsyncThread("client1")
    \/ StartScanAsyncAssign("client1")
    \/ CancelScanStore("client1")
    \/ CancelScanJoinable("client1")
    \/ CancelScanJoin("client1")
    \/ CancelScanFinish("client1")
    \/ \E t \in ScanThreads : ScanThreadStep(t)

ScanSpec == Init /\ [][ScanNext]_vars

\* One client starts and cancels scans and, between them, calls ScanFile
\* synchronously.
SyncNext ==
    \/ ScanNext
    \/ ScannerScanFile("client1", TargetFile)

SyncSpec == Init /\ [][SyncNext]_vars

\* The same client, with callbacks that may call CancelScan.
CallbackNext ==
    \/ ScanNext
    \/ \E t \in ScanThreads : CallbackStep(t)

CallbackSpec == Init /\ [][CallbackNext]_vars

\* ------------------------------------------------------------------------
\* ArchiveScanner
\* ------------------------------------------------------------------------

\* m_maxNestingLevel as setMaxNestingLevel configured it (1 to 10).
m_maxNestingLevel == 2

\* m_maxExtractedSize, the default of 100 MiB in units of 5 MiB.
m_maxExtractedSize == 20

\* The most entries listZipContents returns for one archive.
MaxEntries == 3

\* ZIP compression methods: stored, deflate, and one the code does not know.
Stored == 0
Deflate == 8
Bzip2 == 12

\* The entries of the central directory (listZipContents, lines 361-385),
\* sizes in units of 5 MiB: stored files of two sizes and one over a tenth
\* of the cap, a stored archive, deflate entries whose sizes agree and
\* differ, an entry of an unknown method, an encrypted entry, a directory.
ArchiveEntries ==
    { [NoArchiveEntry EXCEPT !.uncompressedSize = 1, !.compressedSize = 1],
      [NoArchiveEntry EXCEPT !.uncompressedSize = 2, !.compressedSize = 2],
      [NoArchiveEntry EXCEPT !.uncompressedSize = 3, !.compressedSize = 3],
      [NoArchiveEntry EXCEPT !.uncompressedSize = 2, !.compressedSize = 2,
                             !.isArchive = TRUE],
      [NoArchiveEntry EXCEPT !.compressionMethod = Deflate,
                             !.uncompressedSize = 1, !.compressedSize = 1],
      [NoArchiveEntry EXCEPT !.compressionMethod = Deflate,
                             !.uncompressedSize = 2, !.compressedSize = 1],
      [NoArchiveEntry EXCEPT !.compressionMethod = Bzip2,
                             !.uncompressedSize = 1, !.compressedSize = 1],
      [NoArchiveEntry EXCEPT !.encrypted = TRUE,
                             !.uncompressedSize = 1, !.compressedSize = 1],
      [NoArchiveEntry EXCEPT !.isDirectory = TRUE] }

\* An activation of scanZipArchive: where it stands, the entries its loop
\* has not reached, the entry in hand and its ArchiveScanResult. Of the
\* vectors fileResults and nestedResults the result keeps the sizes:
\* filesExtracted counts the file results with scanned = true, notScanned
\* those with scanned = false.
Activation(nestingLevel) ==
    [pc |-> "enter", left |-> 0, entry |-> NoArchiveEntry,
     result |-> [NoResult EXCEPT !.scanned = TRUE, !.nestingLevel = nestingLevel]]

\* The innermost activation.
Top == zipStack[Len(zipStack)]

\* zipStack with the innermost activation replaced.
WithTop(activation) == [zipStack EXCEPT ![Len(zipStack)] = activation]

\* ArchiveScanner::scanArchive, lines 117-141, on an initialized scanner and
\* a file isZipArchive accepts: the result is constructed anew and
\* scanZipArchive is called at level 0.
ScanArchive ==
    /\ zipStack = <<>>
    /\ zipStack' = <<Activation(0)>>
    /\ written' = 0
    /\ archiveResult' = NoResult
    /\ UNCHANGED <<monitorVars, engineVars, historyVars, scannerVars, signatureVars,
                   m_initialized, metadataFile, call, qpc, qlocal>>
    /\ UNCHANGED <<lpc, larg, m_pathsMutex, m_watchedPaths, m_watchHandles,
                   m_workerThreads, m_monitorThread, tstate, spawned, crashed, lastCall,
                   requested, schedVars, sessionVars>>

\* The frame of every step of the archive scanner.
archiveFrame ==
    /\ UNCHANGED <<monitorVars, engineVars, historyVars, scannerVars, signatureVars,
                   m_initialized, metadataFile, call, qpc, qlocal>>
    /\ UNCHANGED <<lpc, larg, m_pathsMutex, m_watchedPaths, m_watchHandles,
                   m_workerThreads, m_monitorThread, tstate, spawned, crashed, lastCall,
                   requested, schedVars, sessionVars>>

\* scanZipArchive, line 195: the test of the nesting level.
NestingExceededNever(nestingLevel) == FALSE

NestingExceeded(nestingLevel) == nestingLevel >= m_maxNestingLevel

\* scanZipArchive, lines 195-211: an archive at the maximum level returns
\* unscanned; otherwise the extraction directory is made and listZipContents
\* reads the central directory.
ScanZipArchiveEnter ==
    /\ zipStack # <<>>
    /\ Top.pc = "enter"
    /\ IF NestingExceeded(Top.result.nestingLevel)
       THEN zipStack' = WithTop([Top EXCEPT
                                   !.pc = "return",
                                   !.result.scanned = FALSE,
                                   !.result.errorMessage = "Maximum nesting level exceeded"])
       ELSE \E n \in 0..MaxEntries :
               zipStack' = WithTop([Top EXCEPT !.pc = "loop", !.left = n])
    /\ UNCHANGED <<written, archiveResult>>
    /\ archiveFrame

\* scanZipArchive, lines 213-224: the head of the loop over the entries. The
\* loop breaks when totalSize is above the cap and skips directories.
ScanZipArchiveLoop ==
    /\ zipStack # <<>>
    /\ Top.pc = "loop"
    /\ IF Top.left = 0 \/ Top.result.totalSize > m_maxExtractedSize
       THEN zipStack' = WithTop([Top EXCEPT !.pc = "return"])
       ELSE \E entry \in ArchiveEntries :
               zipStack' = WithTop([Top EXCEPT
                                      !.left = Top.left - 1,
                                      !.pc = IF entry.isDirectory THEN "loop" ELSE "extract",
                                      !.entry = IF entry.isDirectory THEN NoArchiveEntry
                                                ELSE entry])
    /\ UNCHANGED <<written, archiveResult>>
    /\ archiveFrame

\* ArchiveScanner::extractZipEntry, lines 392-464: false for an encrypted
\* entry, for one larger than a tenth of the cap, for a deflate entry whose
\* sizes differ and for any other method; a stored entry, and a deflate
\* entry whose compressed and uncompressed sizes are equal, is written out
\* byte for byte.
ExtractZipEntry(entry) ==
    /\ ~entry.encrypted
    /\ entry.uncompressedSize <= m_maxExtractedSize \div 10
    /\ \/ entry.compressionMethod = Stored
       \/ /\ entry.compressionMethod = Deflate
          /\ entry.compressedSize = entry.uncompressedSize

\* scanZipArchive, lines 226-277: the entry is extracted, counted, scanned
\* by the threat engine and given a file result with scanned = true; an
\* extracted archive is scanned one level down when nestingLevel is below
\* the maximum (line 255). An entry that is not extracted gets a file
\* result with scanned = false.
ScanZipArchiveEntry ==
    /\ zipStack # <<>>
    /\ Top.pc = "extract"
    /\ IF ExtractZipEntry(Top.entry)
       THEN /\ written' = written + Top.entry.compressedSize
            /\ LET counted == [Top EXCEPT
                                  !.result.filesExtracted = @ + 1,
                                  !.result.totalSize = @ + Top.entry.uncompressedSize]
               IN  IF Top.entry.isArchive /\ Top.result.nestingLevel < m_maxNestingLevel
                   THEN zipStack' = Append(WithTop([counted EXCEPT !.pc = "nested"]),
                                           Activation(Top.result.nestingLevel + 1))
                   ELSE zipStack' = WithTop([counted EXCEPT !.pc = "loop",
                                                            !.entry = NoArchiveEntry])
       ELSE /\ zipStack' = WithTop([Top EXCEPT !.pc = "loop",
                                               !.entry = NoArchiveEntry,
                                               !.result.notScanned = @ + 1])
            /\ UNCHANGED written
    /\ UNCHANGED archiveResult
    /\ archiveFrame

\* scanZipArchive returns (line 289). A nested scan returns to line 258: its
\* result is kept and its counters are added only when it was scanned. The
\* outermost scan returns to scanArchive, which returns the result.
ScanZipArchiveReturn ==
    /\ zipStack # <<>>
    /\ Top.pc = "return"
    /\ IF Len(zipStack) = 1
       THEN /\ zipStack' = <<>>
            /\ archiveResult' = Top.result
       ELSE LET nestedResult == Top.result
                caller == zipStack[Len(zipStack) - 1]
                rest == SubSeq(zipStack, 1, Len(zipStack) - 2)
            IN  /\ zipStack' = Append(rest,
                       IF nestedResult.scanned
                       THEN [caller EXCEPT
                               !.pc = "loop",
                               !.entry = NoArchiveEntry,
                               !.result.nestedResults = @ + 1,
                               !.result.filesExtracted = @ + nestedResult.filesExtracted,
                               !.result.totalSize = @ + nestedResult.totalSize]
                       ELSE [caller EXCEPT !.pc = "loop", !.entry = NoArchiveEntry])
                /\ UNCHANGED archiveResult
    /\ UNCHANGED written
    /\ archiveFrame

ArchiveNext ==
    \/ ScanArchive
    \/ ScanZipArchiveEnter
    \/ ScanZipArchiveLoop
    \/ ScanZipArchiveEntry
    \/ ScanZipArchiveReturn

ArchiveSpec == Init /\ [][ArchiveNext]_vars

\* ------------------------------------------------------------------------
\* ScheduledScanner
\* ------------------------------------------------------------------------

\* The half minutes the system clock may advance.
MaxHalfMinutes == 3

\* One minute and one hour, in half minutes.
Minute == 2
Hour == 120

\* CalculateNextScanTime, lines 160-223: the configured hour of today when
\* it is still ahead, which it is at every time of the model.
CalculateNextScanTime == MaxHalfMinutes + 1

\* The frame of every step of the scheduled scanner.
schedFrame ==
    /\ UNCHANGED <<monitorVars, engineVars, historyVars, scannerVars, signatureVars,
                   m_initialized, metadataFile, call, qpc, qlocal>>
    /\ UNCHANGED <<lpc, larg, m_pathsMutex, m_watchedPaths, m_watchHandles,
                   m_workerThreads, m_monitorThread, tstate, spawned, crashed, lastCall,
                   requested, archiveVars, sessionVars>>

\* The system clock reaches the next half minute.
SystemClockTick ==
    /\ systemClock < MaxHalfMinutes
    /\ systemClock' = systemClock + 1
    /\ UNCHANGED <<m_scanInProgress, m_lastScanTime, spc, wake, fired>>
    /\ schedFrame

\* ScheduledScanner::Initialize, lines 21-31: the scheduler thread starts.
SchedulerInitialize ==
    /\ spc["scheduler"] = "none"
    /\ spc' = [spc EXCEPT !["scheduler"] = "check"]
    /\ UNCHANGED <<systemClock, m_scanInProgress, m_lastScanTime, wake, fired>>
    /\ schedFrame

\* ScheduledScanner::IsTimeForScan, lines 225-249, with the schedule
\* enabled: false while a scan is in progress and while the last scan ended
\* less than a whole hour ago; true when the scheduled time is less than
\* two minutes ahead (both durations are truncated by duration_cast).
RanRecently ==
    /\ m_lastScanTime # NoTime
    /\ (systemClock - m_lastScanTime) \div Hour < 1

IsTimeForScan ==
    /\ ~m_scanInProgress
    /\ ~RanRecently
    /\ (CalculateNextScanTime - systemClock) \div Minute <= 1
    /\ (CalculateNextScanTime - systemClock) \div Minute >= 0

\* SchedulerThread, lines 137-146: one turn of the loop. When IsTimeForScan
\* holds the thread goes into ExecuteScheduledScan, otherwise it sleeps for
\* one minute.
SchedulerThread ==
    /\ spc["scheduler"] = "check"
    /\ IF IsTimeForScan
       THEN /\ spc' = [spc EXCEPT !["scheduler"] = "execute"]
            /\ UNCHANGED wake
       ELSE /\ spc' = [spc EXCEPT !["scheduler"] = "sleep"]
            /\ wake' = systemClock + Minute
    /\ UNCHANGED <<systemClock, m_scanInProgress, m_lastScanTime, fired>>
    /\ schedFrame

\* sleep_for(minutes(1)) returns.
SchedulerWake ==
    /\ spc["scheduler"] = "sleep"
    /\ systemClock >= wake
    /\ spc' = [spc EXCEPT !["scheduler"] = "check"]
    /\ UNCHANGED <<systemClock, m_scanInProgress, m_lastScanTime, wake, fired>>
    /\ schedFrame

\* ScheduledScanner::TriggerScanNow, lines 104-122: false when a scan is in
\* progress, otherwise a detached thread is started on ExecuteScan.
TriggerScanNow ==
    /\ spc["manual"] = "none"
    /\ ~m_scanInProgress
    /\ spc' = [spc EXCEPT !["manual"] = "execute"]
    /\ UNCHANGED <<systemClock, m_scanInProgress, m_lastScanTime, wake, fired>>
    /\ schedFrame

\* The thread leaves ExecuteScan: the scheduler thread sleeps for a minute
\* (line 143), the detached thread ends.
LeaveExecuteScan(t) ==
    /\ spc' = [spc EXCEPT ![t] = IF t = "scheduler" THEN "sleep" ELSE "none"]
    /\ wake' = IF t = "scheduler" THEN systemClock + Minute ELSE wake

\* ScheduledScanner::ExecuteScan, line 261: m_scanInProgress.exchange(true);
\* the call returns when a scan was in progress.
ExecuteScan(t) ==
    /\ spc[t] = "execute"
    /\ m_scanInProgress' = TRUE
    /\ IF m_scanInProgress
       THEN /\ LeaveExecuteScan(t)
            /\ UNCHANGED fired
       ELSE /\ spc' = [spc EXCEPT ![t] = "scanning"]
            /\ fired' = IF t = "scheduler" THEN fired + 1 ELSE fired
            /\ UNCHANGED wake
    /\ UNCHANGED <<systemClock, m_lastScanTime>>
    /\ schedFrame

\* ExecuteScan, lines 280-341: the scan returns and m_lastScanTime is set
\* (line 302), whatever ScanResult the scan returned; the flag is cleared.
ExecuteScanCompleted(t) ==
    /\ spc[t] = "scanning"
    /\ m_lastScanTime' = systemClock
    /\ m_scanInProgress' = FALSE
    /\ LeaveExecuteScan(t)
    /\ UNCHANGED <<systemClock, fired>>
    /\ schedFrame

\* ExecuteScan, lines 272-278 and 333-341: the scanner is not available, or
\* the scan throws; the flag is cleared and m_lastScanTime is left as it
\* was.
ExecuteScanFailed(t) ==
    /\ spc[t] = "scanning"
    /\ m_scanInProgress' = FALSE
    /\ LeaveExecuteScan(t)
    /\ UNCHANGED <<systemClock, m_lastScanTime, fired>>
    /\ schedFrame

SchedulerNext ==
    \/ SystemClockTick
    \/ SchedulerInitialize
    \/ SchedulerThread
    \/ SchedulerWake
    \/ TriggerScanNow
    \/ \E t \in SchedThreads : ExecuteScan(t)
    \/ \E t \in SchedThreads : ExecuteScanCompleted(t)
    \/ \E t \in SchedThreads : ExecuteScanFailed(t)

SchedulerSpec == Init /\ [][SchedulerNext]_vars

\* ------------------------------------------------------------------------
\* SessionManager
\* ------------------------------------------------------------------------

\* The session ids WTSEnumerateSessions can report.
SessionIds == {0, 1, 2, 3}

\* The frame of every step of the session manager.
sessionFrame ==
    /\ UNCHANGED <<monitorVars, engineVars, historyVars, scannerVars, signatureVars,
                   m_initialized, metadataFile, call, qpc, qlocal>>
    /\ UNCHANGED <<lpc, larg, m_pathsMutex, m_watchedPaths, m_watchHandles,
                   m_workerThreads, m_monitorThread, tstate, spawned, crashed, lastCall,
                   requested, archiveVars, schedVars>>

\* SessionManager::Initialize, lines 32-38: the lock_guard takes
\* m_sessionsMutex and, with the mutex held, RefreshActiveSessions is called.
SessionManagerInitialize ==
    /\ sespc["service"] = "idle"
    /\ m_sessionsMutex = NoThread
    /\ m_sessionsMutex' = "service"
    /\ sespc' = [sespc EXCEPT !["service"] = "refresh"]
    /\ UNCHANGED m_sessions
    /\ sessionFrame

\* A second thread calls the public RefreshActiveSessions, as
\* AntivirusService::ServiceWorkerThread does periodically (service.cpp
\* line 358).
ServiceWorkerThread ==
    /\ sespc["serviceWorker"] = "idle"
    /\ sespc' = [sespc EXCEPT !["serviceWorker"] = "refresh"]
    /\ UNCHANGED <<m_sessionsMutex, m_sessions>>
    /\ sessionFrame

\* SessionManager::RefreshActiveSessions, line 173: the lock_guard on
\* m_sessionsMutex. std::mutex is not recursive: locking it on the thread
\* that owns it is undefined behaviour, and the outcomes of the build are
\* that the thread blocks for ever or that lock() throws std::system_error,
\* which unwinds through the caller (releasing its lock_guard). A thread
\* that does not own the mutex waits until it is free.
RefreshActiveSessionsLock(t) ==
    /\ sespc[t] = "refresh"
    /\ IF m_sessionsMutex = t
       THEN \/ /\ sespc' = [sespc EXCEPT ![t] = "blocked"]
               /\ UNCHANGED m_sessionsMutex
            \/ /\ sespc' = [sespc EXCEPT ![t] = "threw"]
               /\ m_sessionsMutex' = NoThread
       ELSE /\ m_sessionsMutex = NoThread
            /\ m_sessionsMutex' = t
            /\ sespc' = [sespc EXCEPT ![t] = "enumerate"]
    /\ UNCHANGED m_sessions
    /\ sessionFrame

\* RefreshActiveSessions, lines 174-191: the map is cleared and filled with
\* the sessions WTSEnumerateSessions reports and GetSessionInfo accepts; the
\* mutex is released. In Initialize the notification window is created next
\* and the call returns (lines 40-48).
RefreshActiveSessions(t) ==
    /\ sespc[t] = "enumerate"
    /\ \E ids \in SUBSET SessionIds : m_sessions' = ids
    /\ m_sessionsMutex' = NoThread
    /\ sespc' = [sespc EXCEPT ![t] = IF t = "service" THEN "returned" ELSE "idle"]
    /\ sessionFrame

SessionNext ==
    \/ SessionManagerInitialize
    \/ ServiceWorkerThread
    \/ \E t \in SessionThreads : RefreshActiveSessionsLock(t)
    \/ \E t \in SessionThreads : RefreshActiveSessions(t)

SessionSpec == Init /\ [][SessionNext]_vars

\* Both threads are scheduled: a thread that can take a step takes one.
SessionFairSpec ==
    /\ SessionSpec
    /\ WF_vars(SessionManagerInitialize)
    /\ \A t \in SessionThreads : WF_vars(RefreshActiveSessionsLock(t))
    /\ \A t \in SessionThreads : WF_vars(RefreshActiveSessions(t))

\* ------------------------------------------------------------------------
\* Claims
\* ------------------------------------------------------------------------

\* The step in which worker w takes a request from the queue.
Takes(w) == wpc[w] = "check" /\ wpc'[w] = "process"

\* C1: whenever a worker takes a request from the scan queue, no request
\* queued at that moment has a higher priority than the one it takes.
C1_TakesHighestPriority ==
    [][\A w \in Workers :
          Takes(w) =>
              \A i \in 1..Len(m_scanQueue) :
                  m_scanQueue[i].priority <= request'[w].priority]_vars

\* C1 witness: a worker holds a request it took while a request of lower
\* priority stays queued.
C1_Witness ==
    \E w \in Workers :
        /\ wpc[w] = "process"
        /\ \E i \in 1..Len(m_scanQueue) : m_scanQueue[i].priority < request[w].priority

\* C2: whenever a worker takes a request, no request of the same priority
\* that was enqueued earlier is still in the queue.
C2_FifoWithinPriority ==
    [][\A w \in Workers :
          Takes(w) =>
              \A i \in 1..Len(m_scanQueue') :
                  ~ /\ m_scanQueue'[i].priority = request'[w].priority
                    /\ m_scanQueue'[i].timestamp < request'[w].timestamp]_vars

\* C3: the queue never holds two requests for one path of which the later
\* has a priority equal to or lower than the earlier.
C3_NoDuplicateRequest ==
    \A i, j \in 1..Len(m_scanQueue) :
        ( /\ m_scanQueue[i].filePath = m_scanQueue[j].filePath
          /\ m_scanQueue[i].timestamp < m_scanQueue[j].timestamp )
        => m_scanQueue[j].priority > m_scanQueue[i].priority

\* The skip rules as the specification states them: one of the excluded
\* directory patterns occurs in the path, compared case-insensitively, or
\* the extension is in the skip list.
MatchesSkipRules(p) ==
    \/ \E pat \in SkipDirPatterns : Contains(ToLower(Chars(p)), pat)
    \/ ToLower(Extension(Chars(p))) \in skipExtensions

SkipRuleOf == [p \in Paths |-> MatchesSkipRules(p)]

C5_QuarantineIffSevere ==
    [][\A w \in Workers :
          (wpc[w] = "process" /\ wpc'[w] # "process") =>
              \A p \in {request[w].filePath} \cap Paths :
                  (detections'[p] = detections[p] + 1)
                  => (wpc'[w] = "quarantine" <=> ScanFile(p).threat_level >= 8)]_vars

\* C5 witness: one worker is about to quarantine the severity-8 file while
\* the severity-7 file was detected and is still at its path.
C5_Witness ==
    /\ \E w \in Workers : wpc[w] = "quarantine" /\ request[w].filePath = PathDat
    /\ detections[PathJs] > 0
    /\ PathJs \in files

\* C6: the monitor reports a threat in a file at most once while the file
\* is at its path, however many change events the file produced.
C6_ThreatReportedOnce == \A p \in Paths : detections[p] <= 1

\* Requests for p are queued or held by a worker.
Pending(p) ==
    \/ \E i \in 1..Len(m_scanQueue) : m_scanQueue[i].filePath = p
    \/ \E w \in Workers : request[w].filePath = p

\* C7: a file with a high-severity signature whose creation or change was
\* enqueued is eventually removed from its path while the monitor keeps
\* running, and each removal by quarantine adds exactly one entry.
C7_EventuallyQuarantined ==
    /\ \A p \in {PathExe, PathDat} :
          (p \in files /\ Pending(p)) ~> (p \notin files \/ ~m_running)
    /\ [][\A p \in Paths :
             (p \in files /\ p \notin files' /\ vault' # vault)
             => Len(m_quarantineEntries') = Len(m_quarantineEntries) + 1]_vars

\* C8: once Shutdown has stored the stop flag, it can always go on to
\* return: while it notifies and joins, some worker or Shutdown itself has a
\* step to take.
C8_ShutdownReturns ==
    cpc \in {"notify", "join"} =>
        ENABLED (ShutdownNotify \/ ShutdownJoin \/ \E w \in Workers : WorkerStep(w))

\* C9: at most one scan thread runs at any time, and the process is not
\* ended by a second start.
C9_SingleScanInProgress ==
    /\ Cardinality(Running) <= 1
    /\ ~terminated

\* C10: a scan that was cancelled while it had files left to scan ends with
\* the result Cancelled.
C10_CancelledResult ==
    \A t \in ScanThreads :
        (tpc[t] = "done" /\ cancelDuring[t]) => scan[t].result = "Cancelled"

\* C11: at every moment of a scan the files counted as scanned plus the
\* files counted as skipped are at most the files counted in total.
C11_ProcessedAtMostTotal ==
    m_statistics.scannedFiles + m_statistics.skippedFiles <= m_statistics.totalFiles

\* No scan is starting or running, and a scan has run to its end.
ScanCompleted ==
    /\ \E t \in ScanThreads : tpc[t] = "done"
    /\ Running = {}
    /\ \A c \in Clients : ccpc[c] = "idle"

\* C12: when a scan has completed, every file counted in total was counted
\* as scanned or as skipped: scannedFiles + skippedFiles = totalFiles.
C12_ProcessedEqualsTotalAtCompletion ==
    ScanCompleted =>
        m_statistics.scannedFiles + m_statistics.skippedFiles = m_statistics.totalFiles

\* In a callback: the scan thread is about to invoke the progress callback,
\* or is inside the threat callback.
InCallback(t) == tpc[t] \in {"progress_cb", "threat_cb"}

\* C13: a scan thread that invokes the progress callback or the threat
\* callback holds no lock of the scanner; in particular it does not hold the
\* statistics mutex.
C13_NoLockHeldInCallback ==
    \A t \in ScanThreads : InCallback(t) => m_statisticsMutex # t

\* C14: CancelScan called from inside a progress or threat callback, on the
\* scan thread itself, returns; it never joins the thread it runs on.
C14_CancelFromCallbackReturns ==
    \A t \in ScanThreads : cancelReentry[t] # "threw"

\* A signature matches a file: its pattern, of at least one byte, stands at
\* its fixed offset within the file, or anywhere in the file when the
\* signature is unanchored.
Matches(s, b) ==
    LET len == Len(s.signature)
    IN  /\ len >= 1
        /\ IF s.offset >= 0
           THEN /\ s.offset + len <= Len(b)
                /\ SubSeq(b, s.offset + 1, s.offset + len) = s.signature
           ELSE \E k \in 0..(Len(b) - len) : SubSeq(b, k + 1, k + len) = s.signature

C16_QuarantineSuccess ==
    [][\A p \in {call'.originalPath} \cap EnginePaths, permitted \in BOOLEAN :
          (CallQuarantineFile(p, permitted) /\ call'.ok) =>
              LET e == m_quarantineEntries'[Len(m_quarantineEntries')]
              IN  /\ ~FileExists(p)'
                  /\ Len(m_quarantineEntries') = Len(m_quarantineEntries) + 1
                  /\ SubSeq(m_quarantineEntries', 1, Len(m_quarantineEntries))
                         = m_quarantineEntries
                  /\ e.originalPath = p
                  /\ e.threatName = ScanFile(p).threat_name
                  /\ e.quarantineTime = now
                  /\ e.quarantinePath \in vault'
                  /\ e.quarantinePath \notin vault]_vars

\* A quarantine succeeded while an earlier entry was in the list.
C16_Witness ==
    /\ call.op = "quarantine"
    /\ call.ok
    /\ Len(m_quarantineEntries) = 2

\* C17: when a quarantine fails (the source is missing, the move fails, or
\* the engine is not initialized), the caller gets an error, the original
\* file is where it was, and the quarantine list in memory and on disk are
\* unchanged.
C17_QuarantineFailure ==
    [][\A p \in {call'.originalPath} \cap EnginePaths, permitted \in BOOLEAN :
          (/\ CallQuarantineFile(p, permitted)
           /\ \/ ~FileExists(p)
              \/ ~m_initialized
              \/ ~MoveFile(FileExists(p), QuarantineName(p, now) \in vault, permitted)) =>
              /\ ~call'.ok
              /\ files' = files
              /\ vault' = vault
              /\ m_quarantineEntries' = m_quarantineEntries
              /\ metadataFile' = metadataFile]_vars

\* A quarantine of an existing file failed with the engine initialized: the
\* move failed.
C17_Witness ==
    /\ call.op = "quarantine"
    /\ ~call.ok
    /\ call.originalPath \in files
    /\ m_initialized
    /\ m_quarantineEntries # <<>>

C19_RestoreRemovesOnlyOnSuccess ==
    [][\A quarantinePath \in {call'.quarantinePath} \cap QuarantineNames,
          dest \in {call'.dest} \cap EnginePaths, permitted \in BOOLEAN :
          CallRestoreFromQuarantine(quarantinePath, dest, permitted) =>
              LET it == FindEntry(quarantinePath)
                  moved == /\ it # 0
                           /\ MoveFile(quarantinePath \in vault,
                                       m_quarantineEntries[it].originalPath \in files,
                                       permitted)
              IN  IF moved
                  THEN /\ call'.ok
                       /\ quarantinePath \notin vault'
                       /\ Len(m_quarantineEntries') = Len(m_quarantineEntries) - 1
                       /\ metadataFile' = m_quarantineEntries'
                  ELSE /\ ~call'.ok
                       /\ m_quarantineEntries' = m_quarantineEntries
                       /\ vault' = vault
                       /\ files' = files
                       /\ metadataFile' = metadataFile]_vars

\* A restore failed for an entry of the list whose file is in the quarantine
\* directory.
C19_Witness ==
    /\ call.op = "restore"
    /\ ~call.ok
    /\ call.quarantinePath \in vault
    /\ FindEntry(call.quarantinePath) # 0

\* C20: a quarantine of a file followed by a restore to a destination the
\* caller chose, where no file exists, leaves the file at that destination,
\* also when the destination is not the original path.
C20_RestoreToChosenDestination ==
    (call.op = "restore" /\ call.ok) => call.dest \in files

RecoveredIndex ==
    SelectSeq(metadataFile, LAMBDA e : e.quarantinePath \in vault)

\* C22: the quarantine list survives a restart: after the engine was shut
\* down or crashed and is initialized again, the list equals the list last
\* written to disk, without the entries whose files are missing.
C22_IndexSurvivesRestart ==
    call.op \in {"initialize", "restart"} => m_quarantineEntries = RecoveredIndex

\* C23: writing the list to disk is crash-consistent: at every point of a
\* write, where a crash would leave the file as it is, the file on disk is
\* the complete list of before the write or the complete new list, never an
\* empty or partial one.
C23_PersistIsCrashConsistent ==
    \A e \in Quarantiners :
        qpc[e] = "save_write" => metadataFile \in {qlocal[e].before, m_quarantineEntries}

\* No thread is inside QuarantineFile.
QuarantinersIdle == \A e \in Quarantiners : qpc[e] = "idle"

\* C25: the quarantine list is changed under mutual exclusion: after several
\* threads have quarantined files concurrently, every moved file has exactly
\* one entry, no entry is lost or doubled, and the list on disk equals the
\* list in memory.
C25_ConcurrentQuarantineKeepsIndex ==
    QuarantinersIdle =>
        /\ \A n \in vault :
               Cardinality({i \in 1..Len(m_quarantineEntries) :
                               m_quarantineEntries[i].quarantinePath = n}) = 1
        /\ Len(m_quarantineEntries) = Cardinality(vault)
        /\ metadataFile = m_quarantineEntries

\* C24: after an update of the database to the signature set d has
\* completed, every scan that starts afterwards matches against exactly d:
\* its verdict is the verdict of the signature pass over d.
C24_ScansUseUpdatedDatabase ==
    [][(call.op = "update" /\ call.ok /\ ScanWithSignatures) =>
           threatInfo' = ScanWithSignaturesFrom(call.database, data, 1)]_vars

\* C27: every quarantine operation gets a vault path different from every
\* other entry's: a file that exists is moved into the vault and recorded
\* whenever the engine is initialized and the file system permits the move,
\* also when a file of the same name was quarantined within the same second.
C27_SameNameBothQuarantined ==
    [][\A p \in {call'.originalPath} \cap SameNamePaths :
          (CallQuarantineFile(p, TRUE) /\ FileExists(p) /\ m_initialized) =>
              /\ call'.ok
              /\ ~FileExists(p)'
              /\ Len(m_quarantineEntries') = Len(m_quarantineEntries) + 1
              /\ QuarantineName(p, now) \in vault' \ vault]_vars

\* No call on the FileMonitor is under way.
CallersIdle == \A c \in Callers : lpc[c] = "idle"

\* C26: the watch set and its handle map are only accessed under the
\* watch-set mutex: the watch thread is never inside an iteration or a
\* lookup of m_watchHandles while AddWatchPath or RemoveWatchPath is between
\* taking and releasing the mutex, inserting, erasing or closing a handle.
C26_WatchSetOnlyUnderMutex ==
    \A c \in Callers :
        lpc[c] \in {"add_insert", "add_push", "remove_handle"} => ~Iterating

\* The state of the monitor that Shutdown works on.
monitorState == <<m_running, m_pathsMutex, m_watchedPaths, m_watchHandles,
                  m_workerThreads, m_monitorThread, tstate, spawned, crashed>>

\* C28: Shutdown is idempotent: a Shutdown called on a monitor that is not
\* running (stopped before, or never started) returns at once, joins no
\* thread, closes no handle and leaves the state of the monitor unchanged.
C28_ShutdownIdempotent ==
    [][\A c \in Callers :
          (ShutdownLoad(c) /\ ~m_running) =>
              /\ lpc'[c] = "idle"
              /\ UNCHANGED monitorState]_vars

\* Shutdown has returned at its first test on a monitor that an earlier
\* Shutdown had stopped (its threads are joined) and that still has nothing
\* to join or close.
C28_Witness ==
    /\ lastCall = [op |-> "Shutdown", early |-> TRUE]
    /\ CallersIdle
    /\ ~m_running
    /\ \E t \in ThreadIds : tstate[t] = "joined"
    /\ \A t \in ThreadIds : tstate[t] \in {"unborn", "joined"}

\* Every thread Initialize starts, the watch thread and the full set of
\* workers, is held by the monitor and has not ended.
ThreadsAlive ==
    /\ m_monitorThread # NoThreadId
    /\ tstate[m_monitorThread] \notin {"unborn", "exited", "joined"}
    /\ Len(m_workerThreads) = Cardinality(Workers)
    /\ \A i \in 1..Len(m_workerThreads) : tstate[m_workerThreads[i]] = "running"

\* No thread that was started is left: each one has been joined.
NoThreadLeft ==
    /\ m_monitorThread = NoThreadId
    /\ m_workerThreads = <<>>
    /\ \A t \in ThreadIds : tstate[t] \in {"unborn", "joined"}

\* C29: when Initialize and Shutdown have been called concurrently from
\* different threads and every call has returned, IsRunning() is true
\* exactly when the watch thread and the workers are alive, and no thread
\* that was started is left unjoined while IsRunning() is false.
C29_ConcurrentStartStopConsistent ==
    CallersIdle => IF m_running THEN ThreadsAlive ELSE NoThreadLeft

\* C30: after a completed stop, Initialize succeeds again: the monitor is
\* running with its watch thread and its full set of workers, and every
\* directory that was added before the stop and not removed is watched.
C30_RestartKeepsWatchedDirectories ==
    (/\ lastCall = [op |-> "Initialize", early |-> FALSE]
     /\ CallersIdle
     /\ \E t \in ThreadIds : tstate[t] = "joined") =>
        /\ m_running
        /\ ThreadsAlive
        /\ requested \subseteq m_watchHandles
        /\ requested \subseteq Watched

\* The actions for which a request is to be queued: creation, modification
\* and the new name of a rename.
CreateOrModify ==
    {"FILE_ACTION_ADDED", "FILE_ACTION_MODIFIED", "FILE_ACTION_RENAMED_NEW_NAME"}

\* C31: with protection enabled, an event for a file that passes the skip
\* filter puts a request in the queue exactly when its action is a creation,
\* a modification or the new name of a rename; a removal and the old name of
\* a rename never do.
C31_EnqueuedIffCreateOrModify ==
    [][\A p \in QueuePaths, action \in FileActions :
          (FileEvent(p, action) /\ m_realTimeProtectionEnabled /\ ~SkipOf[p]) =>
              (steadyClock' = steadyClock + 1 <=> action \in CreateOrModify)]_vars

\* C38: while real-time protection is disabled no step puts a request in
\* the scan queue or wakes a waiting worker, whatever the event; once it is
\* enabled again, the creation or modification of a file that passes the
\* filter is queued.
C38_DisabledProtectionQueuesNothing ==
    [][/\ ~m_realTimeProtectionEnabled =>
              /\ steadyClock' = steadyClock
              /\ Len(m_scanQueue') <= Len(m_scanQueue)
              /\ \A w \in Workers : wpc[w] = "waiting" => wpc'[w] = "waiting"
       /\ \A p \in (files' \ files) \cap ProtectionPaths :
              (/\ m_realTimeProtectionEnabled
               /\ FileEvent(p, "FILE_ACTION_ADDED")
               /\ ~SkipOf[p]) =>
                  /\ Len(m_scanQueue') = Len(m_scanQueue) + 1
                  /\ \E i \in 1..Len(m_scanQueue') : m_scanQueue'[i].filePath = p]_vars

\* Protection is disabled while the monitor runs: a.exe has appeared in a
\* watched directory, no request was ever queued and a worker still waits.
C38_Witness ==
    /\ ~m_realTimeProtectionEnabled
    /\ m_running
    /\ PathExe \in files
    /\ steadyClock = 0
    /\ m_scanQueue = <<>>
    /\ \E w \in Workers : wpc[w] = "waiting"

Severity(result) ==
    CASE result = "Success" -> 0
      [] result = "Failed" -> 1
      [] result = "Cancelled" -> 2
      [] result = "AccessDenied" -> 3

\* What ScanPath returns for a target when no cancellation is requested.
TargetResult(path) ==
    IF ~PathExists(path) THEN "Failed"
    ELSE IF path = TargetDenied THEN "AccessDenied"
    ELSE "Success"

\* The result of the highest rank among the targets' results.
WorstResult(targets) ==
    LET results == {TargetResult(targets[i]) : i \in 1..Len(targets)}
    IN  CHOOSE r \in results : \A q \in results : Severity(q) <= Severity(r)

\* C33: a custom scan that was not cancelled went through every target, a
\* failing one included, and returns the worst result code of any target.
C33_CustomScanReturnsWorstResult ==
    \A t \in ScanThreads :
        (tpc[t] \in {"finish", "done"} /\ scan[t].type = "Custom") =>
            /\ scan[t].paths = <<>>
            /\ scan[t].result = WorstResult(scan[t].targets)

\* C33, the half that holds: a failing target does not stop the scan of
\* the targets after it.
C33_RemainingTargetsScanned ==
    \A t \in ScanThreads :
        (tpc[t] \in {"finish", "done"} /\ scan[t].type = "Custom") =>
            scan[t].paths = <<>>

\* C39: a cancel request affects only the scan in progress when it was made.
\* A synchronous ScanFile made after every CancelScan has returned (the one
\* client is between calls) is not reported Cancelled, and a scan started by
\* StartScanAsync after CancelScan returned begins with the flag clear.
C39_CancelAffectsOnlyScanInProgress ==
    /\ call.op = "ScanFile" => call.result # "Cancelled"
    /\ \A t \in ScanThreads :
           (tpc[t] = "entry" /\ ccpc["client1"] # "cancel_joinable") => ~m_cancelRequested

C35_ExtractedBytesCapped ==
    written <= m_maxExtractedSize

\* C36: an entry that is encrypted or whose compression method is not
\* Stored is never written out (and so never scanned as its raw bytes); it
\* gets a file result with scanned = false and the scan goes on.
C36_CompressedNeverExtracted ==
    [][(/\ zipStack # <<>>
        /\ Top.pc = "extract"
        /\ (Top.entry.compressionMethod # Stored \/ Top.entry.encrypted)
        /\ zipStack' # zipStack) =>
           /\ written' = written
           /\ Len(zipStack') = Len(zipStack)
           /\ zipStack'[Len(zipStack')].pc = "loop"
           /\ zipStack'[Len(zipStack')].result.notScanned = Top.result.notScanned + 1
           /\ zipStack'[Len(zipStack')].result.filesExtracted
                  = Top.result.filesExtracted]_vars

\* C37: the scheduler thread starts at most one scan for the one scheduled
\* time of the model, whether the scan it started ended early or failed
\* and whether or not another thread triggered a scan.
C37_FiresAtMostOnce ==
    fired <= 1

\* C40: a call of SessionManager::Initialize that has taken the sessions
\* mutex returns.
C40_InitializeReturns ==
    (sespc["service"] = "refresh") ~> (sespc["service"] = "returned")

====
